---- MODULE Spec2Model ----
\* A model of kv_engine's VBucket (src/src/vbucket.cc): the high-priority
\* persistence waiters, the pending operations, the pending background
\* fetches, the state transitions, the adaptive checkpoint-flush timeout,
\* the dirty-queue path into the checkpoint manager, the dirty-queue
\* statistics counters, the bloom-filter pair, lookups with expiry on access,
\* background-fetch completion and the nesting of the vBucket's mutexes;
\* with it the memory the vBuckets of a bucket are accounted for, the
\* VBucketFilter written to a stream, the daemon's get and mutation command
\* contexts (src/daemon/protocol/mcbp/get_context.cc) and the collections
\* manifests of an active and a replica vBucket as
\* src/engines/ep/tests/module_tests/collections/vbucket_manifest_test.cc
\* drives them.
\*
\* The specifications that share the module:
\*   Spec        the waiter list under notifyOnPersistence while time advances
\*   SpecNotify  state changes and the mass-notification sweep
\*   SpecQueue   mutations queued through VBucket::queueDirty
\*   SpecStats   the dirty-queue counters under concurrent flusher threads
\*   SpecDisk    the metadata-disk byte counter
\*   SpecFilter  the bloom filters through creation, compaction and swap
\*   SpecFetch   lookups through fetchValidValue next to stored mutations
\*   SpecBgFetch background fetches parked and completed
\*   SpecState   state changes alone, with the open checkpoint id
\*   SpecCommand get and mutation commands stepped to their end
\*   SpecPrinter a VBucketFilter combined with others and written out
\*   SpecMemory  vBuckets made, resized and destroyed against memOverhead
\*   SpecManifest bucket manifests applied to the active manifest and
\*               replayed on the replica
\*   SpecPager   documents with a TTL stored, flushed, read and swept by the
\*               expiry pager
\*   SpecLive    Spec under the schedule in which time advances and
\*               notifyOnPersistence keeps being called
\*   SpecFire    fireAllOps run step by step by two threads
EXTENDS Integers, Sequences, FiniteSets, TLC

\* ------------------------------------------------------------------ bounds
\* Longest high-priority waiter list explored by Spec.
MaxWaiters == 2
\* Largest number of parked registrations (waiters + pending ops + fetches)
\* explored by SpecNotify.
MaxParked == 3

\* Connection cookies (pointer values, ordered as std::map orders them).
Cookies == {1, 2}
\* Seqno / checkpoint-id targets a waiter can name.
TargetIds == {1, 2}
\* Ids reported as persisted: target 1 is reached, target 2 is not.
PersistedIds == {1}
\* Document keys.
Keys == {"a", "b"}

\* --------------------------------------------------------------- constants
\* vbucket.h: MIN_CHK_FLUSH_TIMEOUT / MAX_CHK_FLUSH_TIMEOUT, in seconds.  The
\* header is not part of the source slice; the model keeps the 1:3 ratio of
\* the two bounds (so that the middle band is distinct from both) at a scale
\* the clock can cross.
MIN_CHK_FLUSH_TIMEOUT == 1
MAX_CHK_FLUSH_TIMEOUT == 3

\* Persistence latencies (seconds) observed by other vBuckets of the process:
\* one in each band of adjustCheckpointFlushTimeout.
WallTimes == MIN_CHK_FLUSH_TIMEOUT .. MAX_CHK_FLUSH_TIMEOUT

\* Last clock reading (seconds) explored.  The clock starts at 1, so a waiter
\* can reach the age MAX_CHK_FLUSH_TIMEOUT + 1; every greater age takes the
\* same branches (it exceeds every value of the timeout and falls in the last
\* band of adjustCheckpointFlushTimeout).
MaxTime == MAX_CHK_FLUSH_TIMEOUT + 2

\* ENGINE_ERROR_CODE values passed to notifyIOComplete.
ENGINE_SUCCESS == "success"
ENGINE_TMPFAIL == "tmpfail"
ENGINE_NOT_MY_VBUCKET == "not_my_vbucket"
\* No entry for a cookie in a toNotify map.
NoStatus == "none"

vbucket_state_active == "active"
vbucket_state_replica == "replica"
vbucket_state_pending == "pending"
vbucket_state_dead == "dead"
VBStates ==
    {vbucket_state_active, vbucket_state_replica,
     vbucket_state_pending, vbucket_state_dead}

VARIABLES
    \* ---- VBucket members
    state,              \* vbucket_state_t state
    openCheckpointId,   \* checkpointManager's open checkpoint id
    hpChks,             \* std::list<HighPriorityVBEntry>
    numHpChks,          \* std::atomic<size_t> numHpChks
    highPriorityCount,  \* shard->highPriorityCount
    pendingOps,         \* std::vector<const void*> pendingOps
    pendingOpsStart,    \* hrtime_t pendingOpsStart
    pendingBGFetches,   \* vb_bgfetch_queue_t: key -> vb_bgfetch_item_ctx_t
    chkFlushTimeout,    \* static std::atomic<size_t> VBucket::chkFlushTimeout
    \* ---- environment
    now,                \* gethrtime(), in whole seconds
    \* ---- observation of the last handler that ran
    lastCall,           \* [op, id, flag]: the handler and its arguments
    pre,                \* the members as they were when the handler started
    walkLog,            \* notifyOnPersistence: what the walk saw per entry
    notified,           \* notifyIOComplete calls the handler made, in order
    \* ---- dirty queue (SpecQueue)
    ht,                 \* HashTable: key -> StoredValue
    ckpt,               \* CheckpointManager: open checkpoint and cursors
    seqnoLog,           \* what each finished VBucket::queueDirty call returned
                        \* and gave newSeqnoCb, and the callbacks' order
    \* ---- statistics counters (SpecStats)
    counters,           \* the dirtyQueue* atomics, by name
    metaDataDisk,       \* std::atomic<size_t> metaDataDisk
    threads,            \* per thread: the operation in progress and its locals
    ghost,              \* what was added to the counters, unbounded
    \* ---- bloom filters (SpecFilter)
    bFilter,            \* BloomFilter* bFilter
    tempFilter,         \* BloomFilter* tempFilter
    filterLog,          \* the filter operations called so far, in order
    filterPre,          \* the two filters as the last operation found them
    \* ---- lookups and lock nesting (SpecFetch)
    eviction,           \* const item_eviction_policy_t eviction
    locks,              \* which mutexes were taken, and which callbacks were
                        \* run, while which mutex was held
    \* ---- the daemon's command contexts (SpecCommand)
    cmd,                \* the SteppableCommandContext of the command
    conn,               \* the McbpConnection the command arrived on
    cmdLog,             \* the handlers step() ran, in order
    \* ---- a VBucketFilter and the stream it is written to (SpecPrinter)
    acceptable,         \* std::set<uint16_t> acceptable
    printed,            \* the filter last written and what the stream got
    \* ---- the bucket's memory accounting (SpecMemory)
    memOverhead,        \* stats.memOverhead
    memInitial,         \* memOverhead before any vBucket was made
    vbMap,              \* the vBuckets alive: id -> the VBucket's hash table
    lastDestroyed,      \* the vBucket destroyed last, as it was
    \* ---- the collections manifests of two vBuckets (SpecManifest)
    active,             \* MockVBManifest active
    replica,            \* MockVBManifest replica
    vbA,                \* the active VBucket: its seqno and its checkpoint
    fixtureLastSeqno,   \* int64_t lastSeqno of the fixture
    lastCompleteDeletionArgs, \* Collections::Identifier
    manifestCall        \* the last call on the pair and what it returned

waiterVars ==
    <<state, openCheckpointId, hpChks, numHpChks, highPriorityCount,
      pendingOps, pendingOpsStart, pendingBGFetches, chkFlushTimeout, now,
      lastCall, pre, walkLog, notified>>
queueVars == <<ht, ckpt, seqnoLog>>
statVars == <<counters, metaDataDisk, threads, ghost>>
filterVars == <<bFilter, tempFilter, filterLog, filterPre>>
fetchVars == <<eviction, locks>>
cmdVars == <<cmd, conn, cmdLog>>
printVars == <<acceptable, printed>>
memVars == <<memOverhead, memInitial, vbMap, lastDestroyed>>
manifestVars ==
    <<active, replica, vbA, fixtureLastSeqno, lastCompleteDeletionArgs,
      manifestCall>>
\* What lies outside the VBucket object.
extVars == <<cmdVars, printVars, memVars, manifestVars>>
\* What lies outside the VBucket object next to one of its parts.
besideCmd == <<printVars, memVars, manifestVars>>
besidePrint == <<cmdVars, memVars, manifestVars>>
besideMem == <<cmdVars, printVars, manifestVars>>
besideManifest == <<cmdVars, printVars, memVars>>
\* What the VBucket's own handlers, the bloom filter's apart, never touch.
restVars == <<filterVars, extVars>>
vbucketVars == <<waiterVars, queueVars, statVars, filterVars, fetchVars>>
vars == <<vbucketVars, extVars>>

\* ------------------------------------------------------------------ helpers
RECURSIVE SortedSeq(_)
\* The elements of a finite set of integers, ascending (std::map iteration).
SortedSeq(S) ==
    IF S = {} THEN <<>>
    ELSE LET m == CHOOSE x \in S : \A y \in S : x <= y
         IN <<m>> \o SortedSeq(S \ {m})

RECURSIVE Reverse(_)
Reverse(s) ==
    IF s = <<>> THEN <<>> ELSE Append(Reverse(Tail(s)), Head(s))

\* How many notifyIOComplete calls in `log` went to `cookie`.
Count(log, cookie) ==
    Cardinality({i \in 1..Len(log) : log[i].cookie = cookie})
\* How many of them carried `status`.
CountWith(log, cookie, status) ==
    Cardinality({i \in 1..Len(log) :
                    log[i].cookie = cookie /\ log[i].status = status})

\* gethrtime(): a positive monotonic reading.
gethrtime == now

EmptyToNotify == [c \in Cookies |-> NoStatus]

\* for (itr = toNotify.begin(); ...) e.notifyIOComplete(itr->first, itr->second)
NotifyAll(toNotify) ==
    LET order == SortedSeq({c \in Cookies : toNotify[c] # NoStatus})
    IN [i \in 1..Len(order) |->
            [cookie |-> order[i], status |-> toNotify[order[i]]]]

\* An empty std::unordered_map.
EmptyMap == [k \in {} |-> 0]

NoCall == [op |-> "none"]
Snapshot ==
    [hpChks |-> hpChks, pendingOps |-> pendingOps,
     pendingBGFetches |-> pendingBGFetches,
     chkFlushTimeout |-> chkFlushTimeout, state |-> state,
     openCheckpointId |-> openCheckpointId]
NoSnapshot ==
    [hpChks |-> <<>>, pendingOps |-> <<>>, pendingBGFetches |-> EmptyMap,
     chkFlushTimeout |-> 0, state |-> "none", openCheckpointId |-> 0]

\* ----------------------------------------------------------------- locking
\* item_eviction_policy_t
VALUE_ONLY == "VALUE_ONLY"
FULL_EVICTION == "FULL_EVICTION"
EvictionPolicies == {VALUE_ONLY, FULL_EVICTION}

\* The mutexes of a vBucket.
stateLock == "stateLock"
hashBucket == "hashBucket"
checkpointManager == "checkpointManager"
bfMutex == "bfMutex"
pendingOpLock == "pendingOpLock"
pendingBGFetchesLock == "pendingBGFetchesLock"
hpChksMutex == "hpChksMutex"
LeafMutexes == {pendingOpLock, pendingBGFetchesLock, hpChksMutex}

\* The callbacks into the engine.
notifyIOComplete == "notifyIOComplete"
newSeqnoCb == "newSeqnoCb"

\* What a handler does with mutexes and callbacks, in program order.
Acquire(mutex) == [ev |-> "acquire", what |-> mutex]
Release(mutex) == [ev |-> "release", what |-> mutex]
Invoke(callback) == [ev |-> "invoke", what |-> callback]

\* `count` repetitions of the steps `body`.
RECURSIVE Repeat(_, _)
Repeat(body, count) ==
    IF count = 0 THEN <<>> ELSE body \o Repeat(body, count - 1)

\* The mutexes a thread holds after the steps `trace`, entered holding `held`.
RECURSIVE HeldAfter(_, _)
HeldAfter(trace, held) ==
    IF trace = <<>> THEN held
    ELSE LET step == Head(trace)
         IN HeldAfter(Tail(trace),
                IF step.ev = "acquire" THEN held \cup {step.what}
                ELSE IF step.ev = "release" THEN held \ {step.what}
                ELSE held)

\* Nothing was taken or called under a mutex yet.
NoNesting == [order |-> {}, callbacks |-> {}]

\* The nesting seen so far, extended by the steps `trace` of a thread that
\* entered them holding `held`: order has <<h, m>> when m was acquired while
\* h was held, callbacks has <<c, h>> when c was invoked while h was held.
RECURSIVE Nesting(_, _, _)
Nesting(trace, held, seen) ==
    IF trace = <<>> THEN seen
    ELSE LET step == Head(trace)
         IN Nesting(Tail(trace), HeldAfter(<<step>>, held),
                IF step.ev = "acquire"
                THEN [seen EXCEPT !.order =
                         @ \cup {<<h, step.what>> : h \in held}]
                ELSE IF step.ev = "invoke"
                THEN [seen EXCEPT !.callbacks =
                         @ \cup {<<step.what, h>> : h \in held}]
                ELSE seen)

\* ------------------------------------------------- adaptive flush timeout
\* A faulty variant: the timeout is only ever widened.
AdjustedTimeout_WidenOnly(current, wall_time) ==
    LET middle == (MIN_CHK_FLUSH_TIMEOUT + MAX_CHK_FLUSH_TIMEOUT) \div 2
        band == IF wall_time <= MIN_CHK_FLUSH_TIMEOUT
                THEN MIN_CHK_FLUSH_TIMEOUT
                ELSE IF wall_time <= middle THEN middle
                ELSE MAX_CHK_FLUSH_TIMEOUT
    IN IF band > current THEN band ELSE current

\* VBucket::adjustCheckpointFlushTimeout: the value chkFlushTimeout takes.
\* `current` is the value before the call, which the code does not read.
AdjustedTimeout(current, wall_time) ==
    LET middle == (MIN_CHK_FLUSH_TIMEOUT + MAX_CHK_FLUSH_TIMEOUT) \div 2
    IN IF wall_time <= MIN_CHK_FLUSH_TIMEOUT THEN MIN_CHK_FLUSH_TIMEOUT
       ELSE IF wall_time <= middle THEN middle
       ELSE MAX_CHK_FLUSH_TIMEOUT

\* ------------------------------------------------ high-priority waiters
\* HighPriorityVBEntry(cookie, id, isBySeqno): start is taken at construction.
HighPriorityVBEntry(cookie, id, isBySeqno) ==
    [cookie |-> cookie, id |-> id, isBySeqno |-> isBySeqno,
     start |-> gethrtime]

\* toNotify[cookie] = status on a std::map<const void*, ENGINE_ERROR_CODE>.
RecordStatus(toNotify, cookie, status) ==
    [toNotify EXCEPT ![cookie] = status]

\* A faulty variant: an entry times out only while the timeout is below its
\* widest value.
EntryVerdict_WidestNeverExpires(entry, idNum, spent, timeout) ==
    IF entry.id <= idNum THEN ENGINE_SUCCESS
    ELSE IF spent > timeout /\ timeout < MAX_CHK_FLUSH_TIMEOUT
    THEN ENGINE_TMPFAIL
    ELSE NoStatus

\* notifyOnPersistence, the branch taken for an entry of the wait type:
\* Success, TempFail, or NoStatus when the entry stays.
EntryVerdict(entry, idNum, spent, timeout) ==
    IF entry.id <= idNum THEN ENGINE_SUCCESS
    ELSE IF spent > timeout THEN ENGINE_TMPFAIL
    ELSE NoStatus

RECURSIVE NotifyWalk(_, _, _, _)
\* notifyOnPersistence, the while loop over hpChks from `rest` on.  acc holds
\* the entries kept so far, toNotify, chkFlushTimeout, the shard's count and
\* the log of what each entry met.
NotifyWalk(rest, idNum, isBySeqno, acc) ==
    IF rest = <<>> THEN acc
    ELSE
      LET entry == Head(rest)
          spent == gethrtime - entry.start
          verdict == EntryVerdict(entry, idNum, spent, acc.timeout)
          seen == [entry |-> entry, spent |-> spent, timeout |-> acc.timeout,
                   erased |-> verdict # NoStatus]
      IN IF isBySeqno # entry.isBySeqno
         THEN NotifyWalk(Tail(rest), idNum, isBySeqno,
                [acc EXCEPT !.kept = Append(@, entry)])
         ELSE IF verdict = NoStatus
         THEN NotifyWalk(Tail(rest), idNum, isBySeqno,
                [acc EXCEPT !.kept = Append(@, entry),
                            !.log = Append(@, seen)])
         ELSE NotifyWalk(Tail(rest), idNum, isBySeqno,
                [acc EXCEPT
                   !.toNotify = RecordStatus(@, entry.cookie, verdict),
                   !.timeout = AdjustedTimeout(@, spent),
                   !.hpCount = @ - 1,
                   !.log = Append(@, seen)])

\* VBucket::addHighPriorityVBEntry: LockHolder lh(hpChksMutex) for the body.
addHighPriorityVBEntry_locking ==
    <<Acquire(hpChksMutex), Release(hpChksMutex)>>

\* VBucket::addHighPriorityVBEntry
addHighPriorityVBEntry(id, cookie, isBySeqno) ==
    /\ hpChks' = Append(hpChks, HighPriorityVBEntry(cookie, id, isBySeqno))
    /\ highPriorityCount' = highPriorityCount + 1
    /\ numHpChks' = Len(hpChks')
    /\ lastCall' = [op |-> "addHighPriorityVBEntry", id |-> id,
                    flag |-> isBySeqno]
    /\ pre' = NoSnapshot
    /\ walkLog' = <<>>
    /\ notified' = <<>>
    /\ UNCHANGED <<state, openCheckpointId, pendingOps, pendingOpsStart,
                   pendingBGFetches, chkFlushTimeout, now>>
    /\ locks' = Nesting(addHighPriorityVBEntry_locking, {}, locks)
    /\ UNCHANGED <<queueVars, statVars, restVars, eviction>>

\* VBucket::notifyOnPersistence: the walk runs under hpChksMutex, lh.unlock()
\* comes before the loop that notifies the `numNotified` cookies of toNotify.
notifyOnPersistence_locking(numNotified) ==
    <<Acquire(hpChksMutex), Release(hpChksMutex)>>
    \o Repeat(<<Invoke(notifyIOComplete)>>, numNotified)

\* VBucket::notifyOnPersistence
notifyOnPersistence(idNum, isBySeqno) ==
    LET done == NotifyWalk(hpChks, idNum, isBySeqno,
                    [kept |-> <<>>, toNotify |-> EmptyToNotify,
                     timeout |-> chkFlushTimeout,
                     hpCount |-> highPriorityCount, log |-> <<>>])
    IN /\ hpChks' = done.kept
       /\ highPriorityCount' = done.hpCount
       /\ chkFlushTimeout' = done.timeout
       /\ numHpChks' = Len(hpChks')
       /\ notified' = NotifyAll(done.toNotify)
       /\ walkLog' = done.log
       /\ lastCall' = [op |-> "notifyOnPersistence", id |-> idNum,
                       flag |-> isBySeqno]
       /\ pre' = [NoSnapshot EXCEPT !.hpChks = hpChks,
                                    !.chkFlushTimeout = chkFlushTimeout]
       /\ UNCHANGED <<state, openCheckpointId, pendingOps, pendingOpsStart,
                      pendingBGFetches, now>>
       /\ locks' = Nesting(notifyOnPersistence_locking(Len(notified')),
                         {}, locks)
       /\ UNCHANGED <<queueVars, statVars, restVars, eviction>>

\* VBucket::adjustCheckpointFlushTimeout, called on the process-wide value
\* (by this or by any other vBucket of the process).
adjustCheckpointFlushTimeout(wall_time) ==
    /\ chkFlushTimeout' = AdjustedTimeout(chkFlushTimeout, wall_time)
    /\ lastCall' = [op |-> "adjustCheckpointFlushTimeout"]
    /\ pre' = NoSnapshot
    /\ walkLog' = <<>>
    /\ notified' = <<>>
    /\ UNCHANGED <<state, openCheckpointId, hpChks, numHpChks,
                   highPriorityCount, pendingOps, pendingOpsStart,
                   pendingBGFetches, now>>
    /\ UNCHANGED <<queueVars, statVars, restVars, fetchVars>>

\* The wall clock advances by one second.
Tick ==
    /\ now < MaxTime
    /\ now' = now + 1
    /\ UNCHANGED <<state, openCheckpointId, hpChks, numHpChks,
                   highPriorityCount, pendingOps, pendingOpsStart,
                   pendingBGFetches, chkFlushTimeout, lastCall, pre,
                   walkLog, notified>>
    /\ UNCHANGED <<queueVars, statVars, restVars, fetchVars>>

\* ------------------------------------------------------- pending operations
\* VBucket::addPendingOp (vbucket.h): parks a client op while the vBucket is
\* Pending; the timer starts with the first op.
addPendingOp(cookie) ==
    /\ state = vbucket_state_pending
    /\ pendingOpsStart' = IF pendingOps = <<>> THEN gethrtime
                          ELSE pendingOpsStart
    /\ pendingOps' = Append(pendingOps, cookie)
    /\ lastCall' = [op |-> "addPendingOp", cookie |-> cookie]
    /\ pre' = NoSnapshot
    /\ walkLog' = <<>>
    /\ notified' = <<>>
    /\ UNCHANGED <<state, openCheckpointId, hpChks, numHpChks,
                   highPriorityCount, pendingBGFetches, chkFlushTimeout, now>>
    /\ UNCHANGED <<queueVars, statVars, restVars, fetchVars>>

\* VBucket::fireAllOps(engine, code): the members after the call and the
\* notifyIOComplete calls made, newest op first (pop_back).
FireAllOpsWith(code) ==
    IF pendingOpsStart > 0
    THEN [pendingOps |-> <<>>, pendingOpsStart |-> 0,
          fired |-> LET order == Reverse(pendingOps)
                    IN [i \in 1..Len(order) |->
                          [cookie |-> order[i], status |-> code]]]
    ELSE [pendingOps |-> pendingOps, pendingOpsStart |-> pendingOpsStart,
          fired |-> <<>>]

\* A faulty variant: every state but Active answers NotMyVBucket.
FireAllOps_PendingFires(st) ==
    IF st = vbucket_state_active THEN FireAllOpsWith(ENGINE_SUCCESS)
    ELSE FireAllOpsWith(ENGINE_NOT_MY_VBUCKET)

\* VBucket::fireAllOps(engine): dispatch on the state `st`.
FireAllOps(st) ==
    IF st = vbucket_state_active THEN FireAllOpsWith(ENGINE_SUCCESS)
    ELSE IF st = vbucket_state_pending
    THEN [pendingOps |-> pendingOps, pendingOpsStart |-> pendingOpsStart,
          fired |-> <<>>]
    ELSE FireAllOpsWith(ENGINE_NOT_MY_VBUCKET)

\* A faulty variant: the pending ops are notified without releasing
\* pendingOpLock.
fireAllOpsWith_lockHeld ==
    <<Acquire(pendingOpLock)>>
    \o (IF pendingOpsStart > 0
        THEN Repeat(<<Invoke(notifyIOComplete)>>, Len(pendingOps))
        ELSE <<>>)
    \o <<Release(pendingOpLock)>>

\* VBucket::fireAllOps(engine, code): pendingOpLock is taken on entry,
\* released around each notifyIOComplete and released on return.
fireAllOpsWith_locking ==
    <<Acquire(pendingOpLock)>>
    \o (IF pendingOpsStart > 0
        THEN Repeat(<<Release(pendingOpLock), Invoke(notifyIOComplete),
                      Acquire(pendingOpLock)>>, Len(pendingOps))
        ELSE <<>>)
    \o <<Release(pendingOpLock)>>

\* VBucket::fireAllOps(engine): nothing is locked in the Pending state.
fireAllOps_locking(st) ==
    IF st = vbucket_state_pending THEN <<>> ELSE fireAllOpsWith_locking

\* VBucket::fireAllOps(engine) as an operation of its own.
fireAllOps ==
    LET done == FireAllOps(state)
    IN /\ pendingOps' = done.pendingOps
       /\ pendingOpsStart' = done.pendingOpsStart
       /\ notified' = done.fired
       /\ lastCall' = [op |-> "fireAllOps"]
       /\ pre' = Snapshot
       /\ walkLog' = <<>>
       /\ UNCHANGED <<state, openCheckpointId, hpChks, numHpChks,
                      highPriorityCount, pendingBGFetches, chkFlushTimeout,
                      now>>
       /\ locks' = Nesting(fireAllOps_locking(state), {}, locks)
       /\ UNCHANGED <<queueVars, statVars, restVars, eviction>>

\* ------------------------------------------------------ background fetches
\* The cookies of every fetch parked in the map `fetches`.
RECURSIVE BgCookies(_, _)
BgCookies(fetches, keys) ==
    IF keys = {} THEN <<>>
    ELSE LET k == CHOOSE x \in keys : TRUE
             list == fetches[k].bgfetched_list
         IN [i \in 1..Len(list) |-> list[i].cookie]
            \o BgCookies(fetches, keys \ {k})

\* Number of fetches parked in the map.
NumFetches == Len(BgCookies(pendingBGFetches, DOMAIN pendingBGFetches))

\* A faulty variant: a fetch for a key already pending replaces the parked
\* fetches instead of joining them.
FetchCtxAfter_Replace(fetches, key, fetch) ==
    [isMetaOnly |-> fetch.metaDataOnly, bgfetched_list |-> <<fetch>>]

\* A faulty variant: the fetch queued last decides whether the coalesced
\* fetch is meta-only.
FetchCtxAfter_LastDecides(fetches, key, fetch) ==
    LET ctx == IF key \in DOMAIN fetches
               THEN fetches[key]
               ELSE [isMetaOnly |-> TRUE, bgfetched_list |-> <<>>]
    IN [isMetaOnly |-> fetch.metaDataOnly,
        bgfetched_list |-> Append(ctx.bgfetched_list, fetch)]

\* VBucket::queueBGFetchItem: the key's vb_bgfetch_item_ctx_t after the
\* fetch was queued (pendingBGFetches[key] default-constructs the context).
FetchCtxAfter(fetches, key, fetch) ==
    LET ctx == IF key \in DOMAIN fetches
               THEN fetches[key]
               ELSE [isMetaOnly |-> TRUE, bgfetched_list |-> <<>>]
        ctx1 == IF ctx.bgfetched_list = <<>>
                THEN [ctx EXCEPT !.isMetaOnly = TRUE] ELSE ctx
        ctx2 == [ctx1 EXCEPT !.bgfetched_list = Append(@, fetch)]
    IN IF ~fetch.metaDataOnly
       THEN [ctx2 EXCEPT !.isMetaOnly = FALSE] ELSE ctx2

\* VBucket::queueBGFetchItem: LockHolder lh(pendingBGFetchesLock).
queueBGFetchItem_locking ==
    <<Acquire(pendingBGFetchesLock), Release(pendingBGFetchesLock)>>

\* VBucket::queueBGFetchItem
queueBGFetchItem(key, cookie, metaDataOnly) ==
    LET fetch == [cookie |-> cookie, metaDataOnly |-> metaDataOnly]
    IN /\ pendingBGFetches' =
            [k \in DOMAIN pendingBGFetches \cup {key} |->
                IF k = key THEN FetchCtxAfter(pendingBGFetches, key, fetch)
                ELSE pendingBGFetches[k]]
       /\ lastCall' = [op |-> "queueBGFetchItem", key |-> key,
                       cookie |-> cookie, metaDataOnly |-> metaDataOnly,
                       ret |-> Cardinality(DOMAIN pendingBGFetches')]
       /\ pre' = [NoSnapshot EXCEPT !.pendingBGFetches = pendingBGFetches]
       /\ walkLog' = <<>>
       /\ notified' = <<>>
       /\ UNCHANGED <<state, openCheckpointId, hpChks, numHpChks,
                      highPriorityCount, pendingOps, pendingOpsStart,
                      chkFlushTimeout, now>>
       /\ locks' = Nesting(queueBGFetchItem_locking, {}, locks)
       /\ UNCHANGED <<queueVars, statVars, restVars, eviction>>

\* VBucket::getBGFetchItems: LockHolder lh(pendingBGFetchesLock).
getBGFetchItems_locking ==
    <<Acquire(pendingBGFetchesLock), Release(pendingBGFetchesLock)>>

\* VBucket::getBGFetchItems: the fetcher takes the whole map.
getBGFetchItems ==
    /\ pendingBGFetches # EmptyMap
    /\ pendingBGFetches' = EmptyMap
    /\ lastCall' = [op |-> "getBGFetchItems"]
    /\ pre' = NoSnapshot
    /\ walkLog' = <<>>
    /\ notified' = <<>>
    /\ UNCHANGED <<state, openCheckpointId, hpChks, numHpChks,
                   highPriorityCount, pendingOps, pendingOpsStart,
                   chkFlushTimeout, now>>
    /\ locks' = Nesting(getBGFetchItems_locking, {}, locks)
    /\ UNCHANGED <<queueVars, statVars, restVars, eviction>>

\* ------------------------------------------------------------ state change
\* A faulty variant: a change to a non-Active state runs the failure sweep
\* over the waiters and the pending ops.
SetStateEffect_Notifies(to) ==
    [state |-> to,
     openCheckpointId |->
        IF to = vbucket_state_active /\ openCheckpointId < 2
        THEN 2 ELSE openCheckpointId,
     hpChks |-> IF to = vbucket_state_active THEN hpChks ELSE <<>>,
     pendingOps |-> IF to = vbucket_state_active THEN pendingOps ELSE <<>>,
     fired |->
        IF to = vbucket_state_active THEN <<>>
        ELSE [i \in 1..Len(hpChks) |->
                 [cookie |-> hpChks[i].cookie, status |-> ENGINE_TMPFAIL]]
             \o [i \in 1..Len(pendingOps) |->
                 [cookie |-> pendingOps[i],
                  status |-> ENGINE_NOT_MY_VBUCKET]]]

\* A faulty variant: the open checkpoint id is left as it is.
SetStateEffect_KeepsCheckpointId(to) ==
    [state |-> to,
     openCheckpointId |-> openCheckpointId,
     hpChks |-> hpChks,
     pendingOps |-> pendingOps,
     fired |-> <<>>]

\* VBucket::setState: the members after the call and the notifyIOComplete
\* calls it makes (none).
SetStateEffect(to) ==
    [state |-> to,
     openCheckpointId |->
        IF to = vbucket_state_active /\ openCheckpointId < 2
        THEN 2 ELSE openCheckpointId,
     hpChks |-> hpChks,
     pendingOps |-> pendingOps,
     fired |-> <<>>]

\* VBucket::setState
setState(to) ==
    LET done == SetStateEffect(to)
    IN /\ state' = done.state
       /\ openCheckpointId' = done.openCheckpointId
       /\ hpChks' = done.hpChks
       /\ pendingOps' = done.pendingOps
       /\ notified' = done.fired
       /\ lastCall' = [op |-> "setState", to |-> to]
       /\ pre' = Snapshot
       /\ walkLog' = <<>>
       /\ UNCHANGED <<numHpChks, highPriorityCount, pendingOpsStart,
                      pendingBGFetches, chkFlushTimeout, now>>
       /\ UNCHANGED <<queueVars, statVars, restVars, fetchVars>>

\* Largest open checkpoint id explored.
MaxCheckpointId == 3

\* CheckpointManager::setOpenCheckpointId, as the replication stream calls it
\* when the active node names the checkpoint (0 during a backfill).
setOpenCheckpointId(id) ==
    /\ openCheckpointId' = id
    /\ lastCall' = [op |-> "setOpenCheckpointId", id |-> id]
    /\ pre' = NoSnapshot
    /\ walkLog' = <<>>
    /\ notified' = <<>>
    /\ UNCHANGED <<state, hpChks, numHpChks, highPriorityCount, pendingOps,
                   pendingOpsStart, pendingBGFetches, chkFlushTimeout, now>>
    /\ UNCHANGED <<queueVars, statVars, restVars, fetchVars>>

\* --------------------------------------------------------- the failure sweep
RECURSIVE RecordAll(_, _, _)
\* toNotify[cookie] = status for each cookie of a sequence, in order.
RecordAll(toNotify, cookies, status) ==
    IF cookies = <<>> THEN toNotify
    ELSE RecordAll(RecordStatus(toNotify, Head(cookies), status),
                   Tail(cookies), status)

\* notifyAllPendingConnsFailed: the toNotify map after both loops.
SweepToNotify ==
    LET afterWaiters ==
            RecordAll(EmptyToNotify,
                      [i \in 1..Len(hpChks) |-> hpChks[i].cookie],
                      ENGINE_TMPFAIL)
    IN RecordAll(afterWaiters,
                 BgCookies(pendingBGFetches, DOMAIN pendingBGFetches),
                 ENGINE_NOT_MY_VBUCKET)

\* A faulty variant: hpChksMutex is held until the fetches were swept too.
notifyAllPendingConnsFailed_oneScope(numNotified, st) ==
    <<Acquire(hpChksMutex),
      Acquire(pendingBGFetchesLock), Release(pendingBGFetchesLock),
      Release(hpChksMutex)>>
    \o Repeat(<<Invoke(notifyIOComplete)>>, numNotified)
    \o fireAllOps_locking(st)

\* VBucket::notifyAllPendingConnsFailed: a scope under hpChksMutex, a scope
\* under pendingBGFetchesLock, the loop that notifies the `numNotified`
\* cookies of toNotify, then fireAllOps(e).
notifyAllPendingConnsFailed_locking(numNotified, st) ==
    <<Acquire(hpChksMutex), Release(hpChksMutex),
      Acquire(pendingBGFetchesLock), Release(pendingBGFetchesLock)>>
    \o Repeat(<<Invoke(notifyIOComplete)>>, numNotified)
    \o fireAllOps_locking(st)

\* VBucket::notifyAllPendingConnsFailed
notifyAllPendingConnsFailed ==
    LET done == FireAllOps(state)
    IN /\ hpChks' = <<>>
       /\ highPriorityCount' = highPriorityCount - Len(hpChks)
       /\ pendingBGFetches' = EmptyMap
       /\ pendingOps' = done.pendingOps
       /\ pendingOpsStart' = done.pendingOpsStart
       /\ notified' = NotifyAll(SweepToNotify) \o done.fired
       /\ lastCall' = [op |-> "notifyAllPendingConnsFailed"]
       /\ pre' = Snapshot
       /\ walkLog' = <<>>
       /\ UNCHANGED <<state, openCheckpointId, numHpChks, chkFlushTimeout,
                      now>>
       /\ locks' = Nesting(notifyAllPendingConnsFailed_locking(
                            Len(NotifyAll(SweepToNotify)), state),
                         {}, locks)
       /\ UNCHANGED <<queueVars, statVars, restVars, eviction>>

\* ---------------------------------------------------------- the dirty queue
\* Threads that mutate the vBucket.
Threads == {"t1", "t2"}
\* Values a mutation can store.
Values == {1, 2}
\* Checkpoint cursors: the flusher's and one replication stream's.
Cursors == {"persistence", "replication"}
\* lastSeqno values a vBucket is constructed with.
InitialSeqnos == {0, 1}
\* Largest bySeqno explored.
MaxSeqno == 3

Idle == [pc |-> "idle"]

\* CheckpointManager::queueDirty, under the manager's mutex: stamp the seqno
\* (or take the caller's), stamp the CAS, then deduplicate against the open
\* checkpoint's key index: replace in place when every cursor is strictly
\* before the existing entry, append otherwise.  Gives the manager after the
\* call, the stamped item, and whether the flusher must be woken.
CheckpointManager_queueDirty(cm, item, generateBySeqno, generateCas) ==
    LET seqno == IF generateBySeqno THEN cm.lastBySeqno + 1 ELSE item.bySeqno
        cas == IF generateCas THEN cm.maxCas + 1 ELSE item.cas
        qi == [item EXCEPT !.bySeqno = seqno, !.cas = cas]
        existing == IF item.key \in DOMAIN cm.keyIndex
                    THEN cm.keyIndex[item.key] ELSE 0
        inPlace == /\ existing > 0
                   /\ \A c \in Cursors : cm.cursors[c] < existing
        items == IF inPlace THEN [cm.items EXCEPT ![existing] = qi]
                 ELSE Append(cm.items, qi)
        position == IF inPlace THEN existing ELSE Len(cm.items) + 1
    IN [cm |-> [cm EXCEPT
                  !.lastBySeqno = seqno,
                  !.maxCas = IF generateCas THEN cas ELSE @,
                  !.items = items,
                  !.keyIndex = [k \in DOMAIN cm.keyIndex \cup {item.key} |->
                                  IF k = item.key THEN position
                                  ELSE cm.keyIndex[k]]],
        qi |-> qi,
        notifyFlusher |-> ~inPlace]

\* CheckpointManager::queueDirty accepts a caller-supplied seqno only above
\* the last one it queued.
CheckpointManager_accepts(cm, item, generateBySeqno) ==
    generateBySeqno \/ item.bySeqno > cm.lastBySeqno

\* A faulty variant: the queued item is built without the stored value's value.
ToItem_NoValue(v, key) ==
    [key |-> key, value |-> 0, bySeqno |-> v.bySeqno, cas |-> v.cas]

\* queued_item qi(v.toItem(false, getId()))
ToItem(v, key) ==
    [key |-> key, value |-> v.value, bySeqno |-> v.bySeqno, cas |-> v.cas]

\* A faulty variant: the stored value keeps the seqno it had.
StampStoredValue_NoSeqno(v, qi, generateCas) ==
    [v EXCEPT !.cas = IF generateCas THEN qi.cas ELSE @]

\* v.setBySeqno(qi->getBySeqno()); if (GenerateCas::Yes) v.setCas(qi->getCas())
StampStoredValue(v, qi, generateCas) ==
    [v EXCEPT !.bySeqno = qi.bySeqno,
              !.cas = IF generateCas THEN qi.cas ELSE @]

\* The thread holds the hash-bucket lock of the key.
HoldsBucket(t, key) ==
    /\ threads[t].pc # "idle"
    /\ hashBucket \in threads[t].held
    /\ threads[t].key = key

\* A resident, live StoredValue that never expires.
StoredValue(value, bySeqno, cas) ==
    [value |-> value, bySeqno |-> bySeqno, cas |-> cas, deleted |-> FALSE,
     temp |-> "no", exptime |-> 0, resident |-> TRUE]

\* A caller (set / delete / a replicated mutation) takes the key's hash-bucket
\* lock and updates the stored value; a replicated mutation carries its seqno
\* and CAS.
LockAndStore(t, key, value, generateBySeqno, seqno) ==
    /\ threads[t].pc = "idle"
    /\ \A u \in Threads : ~HoldsBucket(u, key)
    /\ ht' = [k \in DOMAIN ht \cup {key} |->
                IF k # key THEN ht[k]
                ELSE StoredValue(value,
                        IF generateBySeqno
                        THEN (IF key \in DOMAIN ht
                              THEN ht[key].bySeqno ELSE 0)
                        ELSE seqno,
                        IF generateBySeqno
                        THEN (IF key \in DOMAIN ht THEN ht[key].cas ELSE 0)
                        ELSE seqno)]
    /\ threads' = [threads EXCEPT ![t] =
                      [pc |-> "locked", key |-> key,
                       generateBySeqno |-> generateBySeqno,
                       generateCas |-> generateBySeqno,
                       pHtLh |-> TRUE, caller |-> "set",
                       held |-> {hashBucket}]]
    /\ locks' = Nesting(<<Acquire(hashBucket)>>, {}, locks)
    /\ UNCHANGED <<ckpt, seqnoLog>>
    /\ UNCHANGED <<waiterVars, counters, metaDataDisk, ghost, restVars,
                   eviction>>

\* CheckpointManager::queueDirty runs under the manager's own mutex.
CheckpointManager_locking ==
    <<Acquire(checkpointManager), Release(checkpointManager)>>

\* VBucket::queueDirty up to the return of checkpointManager.queueDirty.
\* ckpt.history and ckpt.queuedSinceAdvance observe the call: the stored
\* value the caller passed and the seqno it was given, in commit order, and
\* how often the key was queued since a cursor last moved.
queueDirty_enqueue(t) ==
    /\ threads[t].pc = "locked"
    /\ LET key == threads[t].key
           item == ToItem(ht[key], key)
       IN /\ CheckpointManager_accepts(ckpt, item, threads[t].generateBySeqno)
          /\ LET done == CheckpointManager_queueDirty(
                             ckpt, item, threads[t].generateBySeqno,
                             threads[t].generateCas)
             IN /\ ckpt' = [done.cm EXCEPT
                              !.history =
                                 Append(@, [key |-> key,
                                            value |-> ht[key].value,
                                            bySeqno |-> done.qi.bySeqno]),
                              !.queuedSinceAdvance[key] =
                                 IF @ < 2 THEN @ + 1 ELSE @]
                /\ threads' = [threads EXCEPT ![t] =
                      [@ EXCEPT !.pc = "queued"] @@
                      [qi |-> done.qi,
                       notifyFlusher |-> done.notifyFlusher,
                       commit |-> Len(ckpt.history) + 1]]
    /\ locks' = Nesting(CheckpointManager_locking, threads[t].held, locks)
    /\ UNCHANGED <<ht, seqnoLog>>
    /\ UNCHANGED <<waiterVars, counters, metaDataDisk, ghost, restVars,
                   eviction>>

\* A faulty variant: the new-seqno callback runs before the unlock.
queueDirty_callbackFirst(pHtLh) ==
    <<Invoke(newSeqnoCb)>>
    \o (IF pHtLh THEN <<Release(hashBucket)>> ELSE <<>>)

\* if (pHtLh) pHtLh->unlock(); if (newSeqnoCb) newSeqnoCb->callback(...):
\* `pHtLh` tells whether the caller passed its hash-bucket lock.
queueDirty_locking(pHtLh) ==
    (IF pHtLh THEN <<Release(hashBucket)>> ELSE <<>>)
    \o <<Invoke(newSeqnoCb)>>

\* A faulty variant: the callback gets the seqno the stored value had before.
VBNotifyCtx_Stale(v, qi) ==
    [bySeqno |-> v.bySeqno, notifyReplication |-> TRUE]

\* notifyCtx.bySeqno = qi->getBySeqno(); notifyCtx.notifyReplication = true
VBNotifyCtx(v, qi) ==
    [bySeqno |-> qi.bySeqno, notifyReplication |-> TRUE]

\* VBucket::queueDirty from v.setBySeqno to the return: stamp the stored
\* value, release the hash-bucket lock if the caller passed it, run the
\* new-seqno callback, return the seqno.
queueDirty_finish(t) ==
    /\ threads[t].pc = "queued"
    /\ LET key == threads[t].key
           v == StampStoredValue(ht[key], threads[t].qi,
                                 threads[t].generateCas)
       IN /\ ht' = [ht EXCEPT ![key] = v]
          /\ seqnoLog' = seqnoLog \cup
                {[key |-> key, commit |-> threads[t].commit,
                  returned |-> threads[t].qi.bySeqno,
                  stamped |-> v.bySeqno,
                  call |-> Cardinality(seqnoLog) + 1,
                  notified |-> VBNotifyCtx(ht[key], threads[t].qi).bySeqno]}
    /\ threads' = [threads EXCEPT ![t] =
                      IF threads[t].caller = "set" THEN Idle
                      ELSE [@ EXCEPT
                              !.pc = "fetched",
                              !.held = HeldAfter(
                                  queueDirty_locking(threads[t].pHtLh), @)]]
    /\ locks' = Nesting(queueDirty_locking(threads[t].pHtLh),
                        threads[t].held, locks)
    /\ UNCHANGED ckpt
    /\ UNCHANGED <<waiterVars, counters, metaDataDisk, ghost, restVars,
                   eviction>>

\* The items a cursor has not read yet, in queue order.
ItemsForCursor(cm, cursor) ==
    SubSeq(cm.items, cm.cursors[cursor] + 1, Len(cm.items))

\* CheckpointManager::getAllItemsForCursor: the cursor moves to the end of the
\* open checkpoint; the items it passes are handed out.
getAllItemsForCursor(cursor) ==
    /\ ckpt' = [ckpt EXCEPT
                  !.cursors[cursor] = Len(ckpt.items),
                  !.queuedSinceAdvance =
                        IF ckpt.cursors[cursor] < Len(ckpt.items)
                        THEN [k \in Keys |-> 0] ELSE @]
    /\ UNCHANGED <<ht, seqnoLog, threads>>
    /\ UNCHANGED <<waiterVars, counters, metaDataDisk, ghost, restVars,
                   fetchVars>>

\* ------------------------------------------------------------------ lookups
ENGINE_KEY_ENOENT == "ENGINE_KEY_ENOENT"
ENGINE_ENOMEM == "ENGINE_ENOMEM"
\* The statuses the storage engine gives for a fetched item; ENOMEM stands
\* for the errors that are neither a miss nor a temporary failure.
FetchStatuses ==
    {ENGINE_SUCCESS, ENGINE_KEY_ENOENT, ENGINE_TMPFAIL, ENGINE_ENOMEM}
\* Fetches parked at a time.
MaxFetches == 2
\* The key the lookups and the background fetches are about.
FetchKeys == {"a"}

\* ep_real_time(), in whole seconds.
ep_real_time == now

\* StoredValue::isExpired
isExpired(v, asof) == v.exptime # 0 /\ v.exptime < asof
\* StoredValue::isTempItem
isTempItem(v) == v.temp # "no"
\* StoredValue::isTempInitialItem
isTempInitialItem(v) == v.temp = "initial"

\* HashTable::unlocked_find: whether a StoredValue is handed out (the pointer
\* is not NULL); a deleted one is found only if the caller wants it.
unlocked_find(table, key, wantsDeleted) ==
    /\ key \in DOMAIN table
    /\ wantsDeleted \/ ~table[key].deleted

\* HashTable::unlocked_softDelete: the value is dropped, the item is a
\* tombstone.
unlocked_softDelete(v) == [v EXCEPT !.deleted = TRUE, !.value = 0]

\* The bool an item_eviction_policy_t converts to when it is passed for one.
AsBool(policy) == policy # VALUE_ONLY

\* A faulty variant: an expired item is expired whatever the vBucket's
\* state.
FetchValidValue_AnyState(table, st, asof, key, wantsDeleted, queueExpired) ==
    LET found == unlocked_find(table, key, wantsDeleted)
        expired == /\ found
                   /\ ~table[key].deleted
                   /\ ~isTempItem(table[key])
                   /\ isExpired(table[key], asof)
    IN [v |-> IF expired THEN wantsDeleted ELSE found,
        expire |-> expired /\ queueExpired]

\* VBucket::fetchValidValue: v tells whether a StoredValue is returned (not
\* NULL), expire whether the item is soft-deleted and queued on the way.
FetchValidValue(table, st, asof, key, wantsDeleted, queueExpired) ==
    LET found == unlocked_find(table, key, wantsDeleted)
        expired == /\ found
                   /\ ~table[key].deleted
                   /\ ~isTempItem(table[key])
                   /\ isExpired(table[key], asof)
    IN IF ~expired THEN [v |-> found, expire |-> FALSE]
       ELSE IF st # vbucket_state_active
       THEN [v |-> wantsDeleted, expire |-> FALSE]
       ELSE [v |-> wantsDeleted,
             expire |-> queueExpired /\ st = vbucket_state_active]

\* The entries of the checkpoint history that are about the key.
QueuedFor(key) ==
    Cardinality({i \in 1..Len(ckpt.history) : ckpt.history[i].key = key})

\* What a thread remembers of the bucket it locked for a lookup.
Lookup(key, wantsDeleted, queueExpired, caller, held) ==
    [pc |-> "fetching", key |-> key, wantsDeleted |-> wantsDeleted,
     queueExpired |-> queueExpired, caller |-> caller, held |-> held,
     before |-> IF key \in DOMAIN ht THEN <<ht[key]>> ELSE <<>>,
     queuedBefore |-> QueuedFor(key)]

\* A reader (get and its relatives) takes the key's hash-bucket lock and
\* calls fetchValidValue with its options.
getLockedBucket(t, key, wantsDeleted, queueExpired) ==
    /\ threads[t].pc = "idle"
    /\ \A u \in Threads : ~HoldsBucket(u, key)
    /\ threads' = [threads EXCEPT ![t] =
                      Lookup(key, wantsDeleted, queueExpired, "get",
                             {hashBucket})]
    /\ locks' = Nesting(<<Acquire(hashBucket)>>, {}, locks)
    /\ UNCHANGED <<ht, ckpt, seqnoLog>>
    /\ UNCHANGED <<waiterVars, counters, metaDataDisk, ghost, restVars,
                   eviction>>

\* VBucket::fetchValidValue, called with the bucket lock held.  On the expiry
\* branch the item is soft-deleted and the thread goes on into
\* queueDirty(*v): no lock pointer is passed, the seqno and the CAS are
\* generated.
fetchValidValue(t) ==
    /\ threads[t].pc = "fetching"
    /\ LET key == threads[t].key
           done == FetchValidValue(ht, state, ep_real_time, key,
                                   threads[t].wantsDeleted,
                                   threads[t].queueExpired)
       IN /\ ht' = IF done.expire
                   THEN [ht EXCEPT ![key] = unlocked_softDelete(@)]
                   ELSE ht
          /\ threads' = [threads EXCEPT ![t] =
                [@ EXCEPT !.pc = IF done.expire THEN "locked" ELSE "fetched"]
                @@ [v |-> done.v, asof |-> ep_real_time,
                    generateBySeqno |-> TRUE, generateCas |-> TRUE,
                    pHtLh |-> FALSE]]
    /\ UNCHANGED <<ckpt, seqnoLog>>
    /\ UNCHANGED <<waiterVars, counters, metaDataDisk, ghost, restVars,
                   fetchVars>>

\* The reader is done with the StoredValue and lets go of the bucket lock.
unlockBucket(t) ==
    /\ threads[t].pc = "fetched"
    /\ threads[t].caller = "get"
    /\ threads' = [threads EXCEPT ![t] = Idle]
    /\ UNCHANGED <<ht, ckpt, seqnoLog>>
    /\ UNCHANGED <<waiterVars, counters, metaDataDisk, ghost, restVars,
                   fetchVars>>

\* ------------------------------------------------- background-fetch completion
\* StoredValue::unlocked_restoreMeta: a TempInitial placeholder takes the
\* fetched metadata (and stays non-resident), or becomes TempNonExistent when
\* the storage has no such key; any other item is left alone.
unlocked_restoreMeta(sv, status) ==
    IF ~isTempInitialItem(sv) THEN [ok |-> TRUE, sv |-> sv]
    ELSE IF status = ENGINE_SUCCESS
    THEN [ok |-> TRUE, sv |-> [sv EXCEPT !.temp = "no", !.resident = FALSE]]
    ELSE IF status = ENGINE_KEY_ENOENT
    THEN [ok |-> TRUE, sv |-> [sv EXCEPT !.temp = "nonexistent"]]
    ELSE [ok |-> FALSE, sv |-> sv]

\* StoredValue::unlocked_restoreValue: the item is resident again.
unlocked_restoreValue(sv) ==
    [sv EXCEPT !.temp = "no", !.resident = TRUE, !.value = 1]

\* StoredValue::setNonExistent
setNonExistent(sv) == [sv EXCEPT !.temp = "nonexistent"]

\* An absent StoredValue (v == NULL): never dereferenced.
NoStoredValue == [StoredValue(0, 0, 0) EXCEPT !.resident = FALSE]

\* A faulty variant: a fetch whose item is gone from the hash table fails.
CompleteBGFetch_MissFails(found, sv, fetched, policy) ==
    IF found THEN [status |-> fetched.status, sv |-> sv]
    ELSE [status |-> ENGINE_TMPFAIL, sv |-> sv]

\* A faulty variant: a restore that fails for another reason than a miss
\* keeps the storage's status.
CompleteBGFetch_KeepsStatus(found, sv, fetched, policy) ==
    IF fetched.metaDataOnly
    THEN LET meta == IF found THEN unlocked_restoreMeta(sv, fetched.status)
                     ELSE [ok |-> FALSE, sv |-> sv]
         IN [status |-> IF meta.ok \/ fetched.status = ENGINE_KEY_ENOENT
                        THEN ENGINE_SUCCESS ELSE fetched.status,
             sv |-> meta.sv]
    ELSE IF found /\ sv.resident
    THEN [status |-> ENGINE_SUCCESS, sv |-> sv]
    ELSE IF found /\ fetched.status = ENGINE_SUCCESS
    THEN [status |-> ENGINE_SUCCESS, sv |-> unlocked_restoreValue(sv)]
    ELSE IF found /\ fetched.status = ENGINE_KEY_ENOENT
    THEN [status |-> IF policy = FULL_EVICTION
                     THEN ENGINE_SUCCESS ELSE ENGINE_KEY_ENOENT,
          sv |-> setNonExistent(sv)]
    ELSE [status |-> fetched.status, sv |-> sv]

\* VBucket::completeBGFetchForSingleItem after fetchValidValue: the status
\* it returns and the StoredValue as it leaves it. `found` is v != NULL.
CompleteBGFetch(found, sv, fetched, policy) ==
    IF fetched.metaDataOnly
    THEN LET meta == IF found THEN unlocked_restoreMeta(sv, fetched.status)
                     ELSE [ok |-> FALSE, sv |-> sv]
         IN [status |-> IF meta.ok \/ fetched.status = ENGINE_KEY_ENOENT
                        THEN ENGINE_SUCCESS ELSE fetched.status,
             sv |-> meta.sv]
    ELSE IF found /\ sv.resident
    THEN [status |-> ENGINE_SUCCESS, sv |-> sv]
    ELSE LET restore ==
                IF policy = VALUE_ONLY THEN found /\ ~sv.resident
                ELSE found /\ (isTempInitialItem(sv) \/ ~sv.resident)
         IN IF ~restore THEN [status |-> fetched.status, sv |-> sv]
            ELSE IF fetched.status = ENGINE_SUCCESS
            THEN [status |-> ENGINE_SUCCESS,
                  sv |-> unlocked_restoreValue(sv)]
            ELSE IF fetched.status = ENGINE_KEY_ENOENT
            THEN [status |-> IF policy = FULL_EVICTION
                             THEN ENGINE_SUCCESS ELSE ENGINE_KEY_ENOENT,
                  sv |-> setNonExistent(sv)]
            ELSE [status |-> ENGINE_TMPFAIL, sv |-> sv]

\* The fetches of a map, key by key and in list order, each with the status
\* the storage engine gave for its key.
RECURSIVE FetchedItems(_, _, _)
FetchedItems(fetches, keys, status) ==
    IF keys = {} THEN <<>>
    ELSE LET k == CHOOSE x \in keys : TRUE
             list == fetches[k].bgfetched_list
         IN [i \in 1..Len(list) |->
                [key |-> k, cookie |-> list[i].cookie,
                 metaDataOnly |-> list[i].metaDataOnly,
                 status |-> status[k]]]
            \o FetchedItems(fetches, keys \ {k}, status)

\* The background fetcher takes the vBucket's pending fetches
\* (getBGFetchItems) and reads each key from the storage engine.
BgFetcher_run(t) ==
    /\ threads[t].pc = "idle"
    /\ pendingBGFetches # EmptyMap
    /\ \E status \in [DOMAIN pendingBGFetches -> FetchStatuses] :
          threads' = [threads EXCEPT ![t] =
               [pc |-> "completing", key |-> "", held |-> {},
                caller |-> "bgfetch", taken |-> pendingBGFetches,
                batch |-> FetchedItems(pendingBGFetches,
                                       DOMAIN pendingBGFetches, status),
                fired |-> <<>>]]
    /\ pendingBGFetches' = EmptyMap
    /\ lastCall' = [op |-> "getBGFetchItems"]
    /\ pre' = NoSnapshot
    /\ walkLog' = <<>>
    /\ notified' = <<>>
    /\ locks' = Nesting(getBGFetchItems_locking, {}, locks)
    /\ UNCHANGED <<state, openCheckpointId, hpChks, numHpChks,
                   highPriorityCount, pendingOps, pendingOpsStart,
                   chkFlushTimeout, now>>
    /\ UNCHANGED <<ht, ckpt, seqnoLog>>
    /\ UNCHANGED <<counters, metaDataDisk, ghost, restVars, eviction>>

\* A faulty variant: the bucket is locked before the state lock.
completeBGFetchForSingleItem_bucketFirst ==
    <<Acquire(hashBucket), Acquire(stateLock)>>

\* ReaderLockHolder rlh(getStateLock()); auto blh = ht.getLockedBucket(...)
completeBGFetchForSingleItem_locking ==
    <<Acquire(stateLock), Acquire(hashBucket)>>

\* The fetch the fetcher thread completes next.
NextFetched(t) == threads[t].batch[Len(threads[t].fired) + 1]

\* VBucket::completeBGFetchForSingleItem up to the call of fetchValidValue,
\* which gets the eviction policy for wantsDeleted and leaves queueExpired
\* at its default.
completeBGFetchForSingleItem_lock(t) ==
    /\ threads[t].pc = "completing"
    /\ Len(threads[t].fired) < Len(threads[t].batch)
    /\ LET key == NextFetched(t).key
       IN /\ \A u \in Threads : ~HoldsBucket(u, key)
          /\ threads' = [threads EXCEPT ![t] =
                Lookup(key, AsBool(eviction), TRUE, "bgfetch",
                       HeldAfter(completeBGFetchForSingleItem_locking, {}))
                @@ @]
    /\ locks' = Nesting(completeBGFetchForSingleItem_locking, {}, locks)
    /\ UNCHANGED <<ht, ckpt, seqnoLog>>
    /\ UNCHANGED <<waiterVars, counters, metaDataDisk, ghost, restVars,
                   eviction>>

\* VBucket::completeBGFetchForSingleItem from the return of fetchValidValue
\* to its own return: the restore, the end of the locking scope, the status.
completeBGFetchForSingleItem_restore(t) ==
    /\ threads[t].pc = "fetched"
    /\ threads[t].caller = "bgfetch"
    /\ LET key == threads[t].key
           sv == IF key \in DOMAIN ht THEN ht[key] ELSE NoStoredValue
           done == CompleteBGFetch(threads[t].v, sv, NextFetched(t),
                                   eviction)
       IN /\ ht' = IF threads[t].v THEN [ht EXCEPT ![key] = done.sv] ELSE ht
          /\ threads' = [threads EXCEPT ![t] =
                [@ EXCEPT !.pc = "completed", !.held = {}]
                @@ [status |-> done.status, sv |-> sv,
                    after |-> done.sv]]
    /\ UNCHANGED <<ckpt, seqnoLog>>
    /\ UNCHANGED <<waiterVars, counters, metaDataDisk, ghost, restVars,
                   fetchVars>>

\* The fetcher notifies the waiter of the fetch it completed with the status
\* completeBGFetchForSingleItem returned, and goes on to the next fetch.
BgFetcher_notify(t) ==
    /\ threads[t].pc = "completed"
    /\ threads' = [threads EXCEPT ![t] =
          [pc |-> "completing", key |-> "", held |-> {},
           caller |-> "bgfetch", taken |-> threads[t].taken,
           batch |-> threads[t].batch,
           fired |-> Append(threads[t].fired,
                        [key |-> threads[t].key,
                         cookie |-> NextFetched(t).cookie,
                         status |-> threads[t].status])]]
    /\ locks' = Nesting(<<Invoke(notifyIOComplete)>>, threads[t].held, locks)
    /\ UNCHANGED <<ht, ckpt, seqnoLog>>
    /\ UNCHANGED <<waiterVars, counters, metaDataDisk, ghost, restVars,
                   eviction>>

\* The fetcher is through with the batch.
BgFetcher_done(t) ==
    /\ threads[t].pc = "completing"
    /\ Len(threads[t].fired) = Len(threads[t].batch)
    /\ threads' = [threads EXCEPT ![t] = Idle]
    /\ UNCHANGED <<ht, ckpt, seqnoLog>>
    /\ UNCHANGED <<waiterVars, counters, metaDataDisk, ghost, restVars,
                   fetchVars>>

\* ------------------------------------------------------------ the counters
\* Width of the atomic counters (size_t / uint64_t in the code, scaled down).
CounterBits == 3
Modulus == 2 ^ CounterBits
\* sizeof(Item) and sizeof(ItemMetaData), scaled down.
SizeofItem == 2
SizeofItemMetaData == 1
\* The items counted: qi.getQueuedTime() and itemBytes of each.
StatItems == {[queuedTime |-> 1, itemBytes |-> 2],
              [queuedTime |-> 2, itemBytes |-> 1]}
\* qi.getKey().size() of the items counted.
KeySizes == {1, 2}
\* Most items counted into the queue and most flushed between two resets,
\* and most items counted onto the disk.
MaxQueued == 2
MaxFlushed == 2
MaxOnDisk == 4

\* The counters decremented through a compare-exchange loop, in the order
\* doStatsForFlushing decrements them.
CasCounters ==
    <<"dirtyQueueMem", "dirtyQueueAge", "dirtyQueuePendingWrites">>
DirtyCounters ==
    {"dirtyQueueSize", "dirtyQueueMem", "dirtyQueueFill", "dirtyQueueDrain",
     "dirtyQueueAge", "dirtyQueuePendingWrites"}

NoDecr == [counter |-> "none"]
\* What the compare-exchange counters have been given since construction or
\* the last reset, as unbounded integers, and the last committed decrement
\* that was larger than the value it found.
FreshGhost ==
    [added |-> [c \in {"dirtyQueueMem", "dirtyQueueAge",
                       "dirtyQueuePendingWrites"} |-> 0],
     lastDecr |-> NoDecr]
\* The bytes and the items ever counted onto the disk.
FreshDiskGhost == [metaAdded |-> 0, metaCalls |-> 0]

\* std::atomic fetch_add / fetch_sub / operator++ on an unsigned counter.
FetchAdd(value, by) == (value + by) % Modulus
FetchSub(value, by) == (value - by + Modulus) % Modulus

\* A faulty variant: the decrement without the saturating branch.
NewVal_Wrapping(oldVal, decrementBy) ==
    FetchSub(oldVal, decrementBy)

\* if (oldVal < decrementBy) newVal = 0; else newVal = oldVal - decrementBy;
NewVal(oldVal, decrementBy) ==
    IF oldVal < decrementBy THEN 0 ELSE oldVal - decrementBy

\* The amount doStatsForFlushing passes to the decrement of `counter`.
DecrementBy(counter, queuedTime, itemBytes) ==
    CASE counter = "dirtyQueueMem" -> SizeofItem
      [] counter = "dirtyQueueAge" -> queuedTime
      [] counter = "dirtyQueuePendingWrites" -> itemBytes

\* VBucket::doStatsForQueueing: five atomic additions, each on a counter of
\* its own.
doStatsForQueueing(queuedTime, itemBytes) ==
    LET by == [c \in DirtyCounters |->
                 CASE c = "dirtyQueueSize" -> 1
                   [] c = "dirtyQueueMem" -> SizeofItem
                   [] c = "dirtyQueueFill" -> 1
                   [] c = "dirtyQueueAge" -> queuedTime
                   [] c = "dirtyQueuePendingWrites" -> itemBytes
                   [] OTHER -> 0]
    IN /\ counters' = [c \in DirtyCounters |-> FetchAdd(counters[c], by[c])]
       /\ ghost' = [ghost EXCEPT
                      !.added = [c \in DOMAIN ghost.added |-> @[c] + by[c]]]
       /\ UNCHANGED <<metaDataDisk, threads>>
       /\ UNCHANGED <<waiterVars, queueVars, restVars, fetchVars>>

\* decrDirtyQueueSize(1), defined in the class header: the same saturating
\* decrement.
decrDirtyQueueSize(value, decrementBy) ==
    IF value < decrementBy THEN 0 ELSE value - decrementBy

\* VBucket::doStatsForFlushing, entry: decrDirtyQueueSize(1), then the thread
\* stands before the load of decrDirtyQueueMem(sizeof(Item)).
doStatsForFlushing(t, queuedTime, itemBytes) ==
    /\ threads[t].pc = "idle"
    /\ counters' = [counters EXCEPT
                      !["dirtyQueueSize"] = decrDirtyQueueSize(@, 1)]
    /\ threads' = [threads EXCEPT ![t] =
                      [pc |-> "load", stage |-> 1,
                       queuedTime |-> queuedTime, itemBytes |-> itemBytes]]
    /\ UNCHANGED <<metaDataDisk, ghost>>
    /\ UNCHANGED <<waiterVars, queueVars, restVars, fetchVars>>

\* decrDirtyQueueMem / decrDirtyQueueAge / decrDirtyQueuePendingWrites, the
\* body of the loop: load the counter and compute the saturated new value.
decrDirtyQueue_load(t) ==
    /\ threads[t].pc = "load"
    /\ LET counter == CasCounters[threads[t].stage]
           by == DecrementBy(counter, threads[t].queuedTime,
                             threads[t].itemBytes)
           oldVal == counters[counter]
       IN threads' = [threads EXCEPT ![t] =
                        [pc |-> "cas", stage |-> threads[t].stage,
                         queuedTime |-> threads[t].queuedTime,
                         itemBytes |-> threads[t].itemBytes,
                         oldVal |-> oldVal,
                         newVal |-> NewVal(oldVal, by)]]
    /\ UNCHANGED <<counters, metaDataDisk, ghost>>
    /\ UNCHANGED <<waiterVars, queueVars, restVars, fetchVars>>

\* The loop condition, compare_exchange_strong(oldVal, newVal): the new value
\* is stored if the counter still holds oldVal, and the loop runs again if
\* not.  After decrDirtyQueueMem doStatsForFlushing counts the drain, and
\* after the last decrement it returns.
decrDirtyQueue_compare_exchange(t) ==
    /\ threads[t].pc = "cas"
    /\ LET stage == threads[t].stage
           counter == CasCounters[stage]
           by == DecrementBy(counter, threads[t].queuedTime,
                             threads[t].itemBytes)
           again == [pc |-> "load", stage |-> stage,
                     queuedTime |-> threads[t].queuedTime,
                     itemBytes |-> threads[t].itemBytes]
       IN IF counters[counter] = threads[t].oldVal
          THEN /\ counters' = [c \in DirtyCounters |->
                                 IF c = counter THEN threads[t].newVal
                                 ELSE IF c = "dirtyQueueDrain" /\ stage = 1
                                 THEN FetchAdd(counters[c], 1)
                                 ELSE counters[c]]
               /\ threads' = [threads EXCEPT ![t] =
                                 IF stage < Len(CasCounters)
                                 THEN [again EXCEPT !.stage = stage + 1]
                                 ELSE Idle]
               /\ ghost' = [ghost EXCEPT
                              !.lastDecr =
                                    IF threads[t].oldVal < by
                                    THEN [counter |-> counter,
                                          oldVal |-> threads[t].oldVal,
                                          decrementBy |-> by,
                                          newVal |-> counters'[counter]]
                                    ELSE @]
          ELSE /\ threads' = [threads EXCEPT ![t] = again]
               /\ UNCHANGED <<counters, ghost>>
    /\ UNCHANGED metaDataDisk
    /\ UNCHANGED <<waiterVars, queueVars, restVars, fetchVars>>

\* VBucket::resetStats: the dirty-queue counters are stored as zero (the
\* metadata-disk counter is not touched).
resetStats ==
    /\ counters' = [c \in DirtyCounters |-> 0]
    /\ ghost' = FreshGhost
    /\ UNCHANGED <<metaDataDisk, threads>>
    /\ UNCHANGED <<waiterVars, queueVars, restVars, fetchVars>>

\* VBucket::incrMetaDataDisk
incrMetaDataDisk(keySize) ==
    /\ metaDataDisk' = FetchAdd(metaDataDisk, keySize + SizeofItemMetaData)
    /\ ghost' = [ghost EXCEPT
                   !.metaAdded = @ + keySize + SizeofItemMetaData,
                   !.metaCalls = @ + 1]
    /\ UNCHANGED <<counters, threads>>
    /\ UNCHANGED <<waiterVars, queueVars, restVars, fetchVars>>

\* VBucket::decrMetaDataDisk
decrMetaDataDisk(keySize) ==
    /\ metaDataDisk' = FetchSub(metaDataDisk, keySize + SizeofItemMetaData)
    /\ UNCHANGED <<counters, threads, ghost>>
    /\ UNCHANGED <<waiterVars, queueVars, restVars, fetchVars>>

\* ---------------------------------------------------------- bloom filters
\* Most filter operations in one run.
MaxFilterOps == 5

\* bfilter_status_t
BFILTER_DISABLED == "disabled"
BFILTER_ENABLED == "enabled"
BFILTER_COMPACTING == "compacting"
FilterStatuses == {BFILTER_DISABLED, BFILTER_ENABLED, BFILTER_COMPACTING}

\* A null BloomFilter pointer.
NULL == [status |-> "null", bits |-> {}]

\* The bit positions the filter's hash functions give a key (two hash
\* functions over three bits): the keys share bit 2.
BitsOf(key) == IF key = "a" THEN {1, 2} ELSE {2, 3}

\* new BloomFilter(key_count, probability, status): no bit set.
BloomFilter(status) == [status |-> status, bits |-> {}]
\* BloomFilter::addKey sets the key's bits.
addKey(filter, key) == [filter EXCEPT !.bits = @ \cup BitsOf(key)]
\* BloomFilter::maybeKeyExists is false iff one of the key's bits is zero.
maybeKeyExists(filter, key) == BitsOf(key) \subseteq filter.bits
\* BloomFilter::setStatus
setStatus(filter, to) == [filter EXCEPT !.status = to]

\* VBucket::createFilter: the filters after the call.
CreateFilter(main, temp) ==
    IF main = NULL /\ temp = NULL
    THEN [bFilter |-> BloomFilter(BFILTER_ENABLED), tempFilter |-> temp]
    ELSE [bFilter |-> main, tempFilter |-> temp]

\* A faulty variant: the main filter keeps its status.
InitTempFilter_MainUntouched(main, temp) ==
    [bFilter |-> main, tempFilter |-> BloomFilter(BFILTER_COMPACTING)]

\* VBucket::initTempFilter: the filters after the call.
InitTempFilter(main, temp) ==
    [bFilter |-> IF main # NULL THEN setStatus(main, BFILTER_COMPACTING)
                 ELSE main,
     tempFilter |-> BloomFilter(BFILTER_COMPACTING)]

\* A faulty variant: the key is added to the main filter only.
AddToFilter_MainOnly(main, temp, key) ==
    [bFilter |-> IF main # NULL THEN addKey(main, key) ELSE main,
     tempFilter |-> temp]

\* VBucket::addToFilter: the filters after the call.
AddToFilter(main, temp, key) ==
    [bFilter |-> IF main # NULL THEN addKey(main, key) ELSE main,
     tempFilter |-> IF temp # NULL THEN addKey(temp, key) ELSE temp]

\* VBucket::addToTempFilter: the filters after the call.
AddToTempFilter(main, temp, key) ==
    [bFilter |-> main,
     tempFilter |-> IF temp # NULL THEN addKey(temp, key) ELSE temp]

\* A faulty variant: the temp filter is swapped in whatever its status.
SwapFilter_AnyStatus(main, temp) ==
    IF temp # NULL
    THEN [bFilter |-> setStatus(temp, BFILTER_ENABLED), tempFilter |-> NULL]
    ELSE [bFilter |-> main, tempFilter |-> NULL]

\* VBucket::swapFilter: the filters after the call.
SwapFilter(main, temp) ==
    LET main1 == IF main # NULL /\ temp # NULL THEN NULL ELSE main
    IN IF temp # NULL /\ temp.status \in {BFILTER_COMPACTING, BFILTER_ENABLED}
       THEN [bFilter |-> setStatus(temp, BFILTER_ENABLED),
             tempFilter |-> NULL]
       ELSE [bFilter |-> main1, tempFilter |-> NULL]

\* VBucket::clearFilter: the filters after the call.
ClearFilter(main, temp) == [bFilter |-> NULL, tempFilter |-> NULL]

\* VBucket::setFilterStatus: the filters after the call.
SetFilterStatus(main, temp, to) ==
    [bFilter |-> IF main # NULL THEN setStatus(main, to) ELSE main,
     tempFilter |-> IF temp # NULL THEN setStatus(temp, to) ELSE temp]

\* A faulty variant: without a main filter no key is taken to exist.
maybeKeyExistsInFilter_FailsClosed(key) ==
    bFilter # NULL /\ maybeKeyExists(bFilter, key)

\* VBucket::maybeKeyExistsInFilter
maybeKeyExistsInFilter(key) ==
    IF bFilter # NULL THEN maybeKeyExists(bFilter, key) ELSE TRUE

\* A filter operation, under bfMutex from entry to return: the filters take
\* the values `after`, and the call is logged.
FilterCall(call, after) ==
    /\ bFilter' = after.bFilter
    /\ tempFilter' = after.tempFilter
    /\ filterLog' = Append(filterLog, call)
    /\ filterPre' = [bFilter |-> bFilter, tempFilter |-> tempFilter]
    /\ UNCHANGED <<waiterVars, queueVars, statVars, fetchVars, extVars>>

createFilter ==
    FilterCall([op |-> "createFilter"], CreateFilter(bFilter, tempFilter))

initTempFilter ==
    FilterCall([op |-> "initTempFilter"],
               InitTempFilter(bFilter, tempFilter))

addToFilter(key) ==
    FilterCall([op |-> "addToFilter", key |-> key],
               AddToFilter(bFilter, tempFilter, key))

addToTempFilter(key) ==
    FilterCall([op |-> "addToTempFilter", key |-> key],
               AddToTempFilter(bFilter, tempFilter, key))

swapFilter ==
    FilterCall([op |-> "swapFilter"], SwapFilter(bFilter, tempFilter))

clearFilter ==
    FilterCall([op |-> "clearFilter"], ClearFilter(bFilter, tempFilter))

setFilterStatus(to) ==
    FilterCall([op |-> "setFilterStatus", to |-> to],
               SetFilterStatus(bFilter, tempFilter, to))

\* ------------------------------------------------ the daemon's command contexts
\* daemon/protocol/mcbp/get_context.cc and mutation_context.cc: a command is
\* a context object with a State and a step() that runs the state's handler
\* until one of them returns something else than ENGINE_SUCCESS.

ENGINE_KEY_EEXISTS == "ENGINE_KEY_EEXISTS"
ENGINE_NOT_STORED == "ENGINE_NOT_STORED"
ENGINE_EWOULDBLOCK == "ENGINE_EWOULDBLOCK"
ENGINE_EINVAL == "ENGINE_EINVAL"
ENGINE_FAILED == "ENGINE_FAILED"

OPERATION_ADD == "OPERATION_ADD"
OPERATION_SET == "OPERATION_SET"
OPERATION_REPLACE == "OPERATION_REPLACE"
OPERATION_CAS == "OPERATION_CAS"
StoreOperations == {OPERATION_ADD, OPERATION_SET, OPERATION_REPLACE}

PROTOCOL_BINARY_RAW_BYTES == "raw"
PROTOCOL_BINARY_DATATYPE_JSON == "json"
PROTOCOL_BINARY_RESPONSE_SUCCESS == "RESPONSE_SUCCESS"
PROTOCOL_BINARY_RESPONSE_KEY_ENOENT == "RESPONSE_KEY_ENOENT"

\* Commands a connection sends before it closes.
MaxCommands == 2
\* Calls of step() on one command context.
MaxSteps == 2

\* No command is being processed.
NoCommand == [kind |-> "none", running |-> FALSE]
NoConnection == [cas |-> 0, responses |-> <<>>, commands |-> 0]

\* The key has a live value in the hash table.
IsLive(table, key) ==
    /\ unlocked_find(table, key, FALSE)
    /\ ~isTempItem(table[key])

\* The highest seqno the table holds.
HighSeqno(table) ==
    IF DOMAIN table = {} THEN 0
    ELSE CHOOSE s \in {table[k].bySeqno : k \in DOMAIN table} :
            \A k \in DOMAIN table : table[k].bySeqno <= s

\* What the engine answers to any request for a vBucket it does not serve
\* as Active: a Pending vBucket parks the request, any other state turns it
\* away.
NotServed(st) ==
    IF st = vbucket_state_pending THEN ENGINE_EWOULDBLOCK
    ELSE ENGINE_NOT_MY_VBUCKET

\* bucket_get: the live item, or no_such_key; a live item whose value is not
\* resident has to be fetched first.
bucket_get(table, st, key) ==
    IF st # vbucket_state_active THEN [status |-> NotServed(st)]
    ELSE IF ~IsLive(table, key) THEN [status |-> ENGINE_KEY_ENOENT]
    ELSE IF ~table[key].resident THEN [status |-> ENGINE_EWOULDBLOCK]
    ELSE [status |-> ENGINE_SUCCESS, item |-> table[key]]

\* What the engine answers to a store when it serves the request: add must
\* miss, replace must hit, set always stores, and a CAS store must hit the
\* item with that CAS.
StoreStatus(table, key, cas, operation) ==
    CASE operation = OPERATION_ADD ->
            IF IsLive(table, key) THEN ENGINE_NOT_STORED ELSE ENGINE_SUCCESS
      [] operation = OPERATION_REPLACE ->
            IF IsLive(table, key) THEN ENGINE_SUCCESS ELSE ENGINE_NOT_STORED
      [] operation = OPERATION_CAS ->
            IF ~IsLive(table, key) THEN ENGINE_KEY_ENOENT
            ELSE IF table[key].cas = cas THEN ENGINE_SUCCESS
                 ELSE ENGINE_KEY_EEXISTS
      [] OTHER -> ENGINE_SUCCESS

\* The table with `value` stored under `key`, and the CAS the item got.
Stored(table, key, value) ==
    LET seqno == HighSeqno(table) + 1
    IN  [status |-> ENGINE_SUCCESS,
         table |-> [k \in DOMAIN table \cup {key} |->
                       IF k = key THEN StoredValue(value, seqno, seqno)
                       ELSE table[k]],
         cas |-> seqno]

\* bucket_store: the answer, the table after it and the item's new CAS.
bucket_store(table, st, key, value, cas, operation) ==
    LET status == IF st # vbucket_state_active THEN NotServed(st)
                  ELSE StoreStatus(table, key, cas, operation)
    IN  IF status = ENGINE_SUCCESS THEN Stored(table, key, value)
        ELSE [status |-> status, table |-> table, cas |-> cas]

\* GetCommandContext's constructor.
GetCommandContext(key) ==
    [kind |-> "get", state |-> "GetItem", key |-> key, payload |-> NoStatus,
     running |-> FALSE, ret |-> NoStatus, calls |-> 0]

\* MutationCommandContext::MutationCommandContext
MutationCommandContext(op_, key, value, cas, datatype) ==
    [kind |-> "mutation",
     operation |-> IF cas = 0 THEN op_ ELSE OPERATION_CAS,
     key |-> key, value |-> value, input_cas |-> cas, datatype |-> datatype,
     state |-> "ValidateInput", newitem |-> FALSE,
     running |-> FALSE, ret |-> NoStatus, calls |-> 0]

\* A command arrives on the connection and its context is created.
NewCommand(context) ==
    /\ ~cmd.running
    /\ conn.commands < MaxCommands
    /\ cmd' = context
    /\ conn' = [conn EXCEPT !.responses = <<>>, !.commands = @ + 1]
    /\ cmdLog' = <<>>
    /\ UNCHANGED <<vbucketVars, besideCmd>>

\* The connection calls step().
step ==
    /\ cmd.kind # "none"
    /\ ~cmd.running
    /\ cmd.calls < MaxSteps
    /\ cmd' = [cmd EXCEPT !.running = TRUE, !.calls = @ + 1]
    /\ UNCHANGED <<conn, cmdLog, vbucketVars, besideCmd>>

\* The loop of step() around one handler: the handler leaves the context as
\* `next` and returns `ret`; step() goes round again on ENGINE_SUCCESS and
\* returns ret otherwise.  The log takes the call of step() the handler ran
\* in, the state it ran for, what it returned, the state it left, and the
\* table and the vBucket's state as the handler found them.  (The
\* thread's statistics counters, which step() bumps on its way out, are not
\* part of the model.)
Handled(next, ret) ==
    /\ cmd' = [next EXCEPT !.running = (ret = ENGINE_SUCCESS), !.ret = ret]
    /\ cmdLog' = Append(cmdLog, [call |-> cmd.calls, from |-> cmd.state,
                                 ret |-> ret, to |-> next.state,
                                 table |-> ht, vb |-> state])

InState(kind, st) ==
    /\ cmd.kind = kind
    /\ cmd.running
    /\ cmd.state = st

\* A faulty variant: the item is found and the state stays GetItem.
GetItem_Found_StaysPut(item, need_inflate) ==
    [cmd EXCEPT !.payload = [snappy |-> need_inflate, data |-> item.value]]

\* GetCommandContext::getItem, the item found.
GetItem_Found(item, need_inflate) ==
    [cmd EXCEPT !.payload = [snappy |-> need_inflate, data |-> item.value],
                !.state = IF need_inflate THEN "InflateItem"
                          ELSE "SendResponse"]

\* GetCommandContext::getItem
getItem ==
    /\ InState("get", "GetItem")
    /\ LET r == bucket_get(ht, state, cmd.key)
       IN \/ /\ r.status = ENGINE_SUCCESS
             /\ \E got_info \in BOOLEAN, need_inflate \in BOOLEAN :
                   IF got_info
                   THEN Handled(GetItem_Found(r.item, need_inflate),
                                ENGINE_SUCCESS)
                   ELSE Handled(cmd, ENGINE_FAILED)
          \/ /\ r.status = ENGINE_KEY_ENOENT
             /\ Handled([cmd EXCEPT !.state = "NoSuchItem"], ENGINE_SUCCESS)
          \/ /\ r.status \notin {ENGINE_SUCCESS, ENGINE_KEY_ENOENT}
             /\ Handled(cmd, r.status)
    /\ UNCHANGED <<conn, vbucketVars, besideCmd>>

\* GetCommandContext::inflateItem
inflateItem ==
    /\ InState("get", "InflateItem")
    /\ \/ Handled(cmd, ENGINE_FAILED)
       \/ Handled(cmd, ENGINE_ENOMEM)
       \/ Handled([cmd EXCEPT !.payload.snappy = FALSE,
                              !.state = "SendResponse"], ENGINE_SUCCESS)
    /\ UNCHANGED <<conn, vbucketVars, besideCmd>>

\* GetCommandContext::sendResponse
Get_sendResponse ==
    /\ InState("get", "SendResponse")
    /\ conn' = [conn EXCEPT
                   !.responses =
                       Append(@, [status |-> PROTOCOL_BINARY_RESPONSE_SUCCESS,
                                  value |-> cmd.payload.data])]
    /\ Handled([cmd EXCEPT !.state = "Done"], ENGINE_SUCCESS)
    /\ UNCHANGED <<vbucketVars, besideCmd>>

\* GetCommandContext::noSuchItem
noSuchItem ==
    /\ InState("get", "NoSuchItem")
    /\ \E isNoReply \in BOOLEAN :
          conn' = [conn EXCEPT
                      !.responses =
                          IF isNoReply THEN @
                          ELSE Append(@, [status |->
                                     PROTOCOL_BINARY_RESPONSE_KEY_ENOENT])]
    /\ Handled([cmd EXCEPT !.state = "Done"], ENGINE_SUCCESS)
    /\ UNCHANGED <<vbucketVars, besideCmd>>

\* MutationCommandContext::validateInput
validateInput ==
    /\ InState("mutation", "ValidateInput")
    /\ \E isSupportsDatatype \in BOOLEAN, isJson \in BOOLEAN :
          IF isSupportsDatatype
          THEN Handled([cmd EXCEPT !.state = "AllocateNewItem"],
                       ENGINE_SUCCESS)
          ELSE IF cmd.datatype # PROTOCOL_BINARY_RAW_BYTES
               THEN Handled(cmd, ENGINE_EINVAL)
               ELSE \/ Handled(cmd, ENGINE_ENOMEM)
                    \/ Handled([cmd EXCEPT
                                   !.datatype =
                                       IF isJson
                                       THEN PROTOCOL_BINARY_DATATYPE_JSON
                                       ELSE @,
                                   !.state = "AllocateNewItem"],
                               ENGINE_SUCCESS)
    /\ UNCHANGED <<conn, vbucketVars, besideCmd>>

\* MutationCommandContext::allocateNewItem
allocateNewItem ==
    /\ InState("mutation", "AllocateNewItem")
    /\ \/ Handled(cmd, ENGINE_ENOMEM)
       \/ Handled([cmd EXCEPT !.newitem = TRUE], ENGINE_FAILED)
       \/ Handled([cmd EXCEPT !.newitem = TRUE, !.state = "StoreItem"],
                  ENGINE_SUCCESS)
    /\ UNCHANGED <<conn, vbucketVars, besideCmd>>

\* A faulty variant: NOT_STORED is passed on as the engine gave it.
StoreItem_Ret_NoRemap(ret, operation) == ret

\* MutationCommandContext::storeItem, the value returned for the engine's
\* answer.
StoreItem_Ret(ret, operation) ==
    IF ret = ENGINE_NOT_STORED
    THEN IF operation = OPERATION_ADD THEN ENGINE_KEY_EEXISTS
         ELSE IF operation = OPERATION_REPLACE THEN ENGINE_KEY_ENOENT
              ELSE ret
    ELSE ret

\* MutationCommandContext::storeItem
storeItem ==
    /\ InState("mutation", "StoreItem")
    /\ LET r == bucket_store(ht, state, cmd.key, cmd.value, cmd.input_cas,
                             cmd.operation)
       IN /\ ht' = r.table
          /\ IF r.status = ENGINE_SUCCESS
             THEN /\ conn' = [conn EXCEPT !.cas = r.cas]
                  /\ Handled([cmd EXCEPT !.state = "SendResponse"],
                             ENGINE_SUCCESS)
             ELSE /\ conn' = conn
                  /\ Handled(cmd, StoreItem_Ret(r.status, cmd.operation))
    /\ UNCHANGED <<waiterVars, ckpt, seqnoLog, statVars, filterVars,
                   fetchVars, besideCmd>>

\* MutationCommandContext::sendResponse
Mutation_sendResponse ==
    /\ InState("mutation", "SendResponse")
    /\ \E isNoReply \in BOOLEAN, isSupportsMutationExtras \in BOOLEAN,
          ok \in BOOLEAN :
          LET next == [cmd EXCEPT !.state = "Done"]
              sent == [conn EXCEPT
                          !.responses =
                              Append(@, [status |->
                                            PROTOCOL_BINARY_RESPONSE_SUCCESS,
                                         cas |-> conn.cas])]
          IN  IF isNoReply
              THEN conn' = conn /\ Handled(next, ENGINE_SUCCESS)
              ELSE IF isSupportsMutationExtras /\ ~ok
                   THEN conn' = conn /\ Handled(next, ENGINE_FAILED)
                   ELSE conn' = sent /\ Handled(next, ENGINE_SUCCESS)
    /\ UNCHANGED <<vbucketVars, besideCmd>>

\* step() in State::Done
step_Done ==
    /\ cmd.running
    /\ cmd.state = "Done"
    /\ cmd' = [cmd EXCEPT !.running = FALSE, !.ret = ENGINE_SUCCESS]
    /\ cmdLog' = Append(cmdLog, [call |-> cmd.calls, from |-> "Done",
                                 ret |-> ENGINE_SUCCESS, to |-> "Done",
                                 table |-> ht, vb |-> state])
    /\ UNCHANGED <<conn, vbucketVars, besideCmd>>

\* One turn of the loop in step().
RunHandler ==
    \/ getItem
    \/ inflateItem
    \/ Get_sendResponse
    \/ noSuchItem
    \/ validateInput
    \/ allocateNewItem
    \/ storeItem
    \/ Mutation_sendResponse
    \/ step_Done

\* ---------------------------------------------------------- the VBucketFilter
\* Largest vBucket id explored.
MaxVBucketId == 5
VBucketIds == 0..MaxVBucketId

\* What the stream takes: string literals and numbers.
Lit(s) == [t |-> "lit", s |-> s]
Num(n) == [t |-> "num", n |-> n]

\* VBucketFilter::filter_diff
filter_diff(other) ==
    /\ acceptable' = (acceptable \ other) \cup (other \ acceptable)
    /\ UNCHANGED <<printed, vbucketVars, besidePrint>>

\* VBucketFilter::filter_intersection
filter_intersection(other) ==
    /\ acceptable' = acceptable \cap other
    /\ UNCHANGED <<printed, vbucketVars, besidePrint>>

RECURSIVE isRange_loop(_, _, _, _)
\* isRange, the for loop: from position `it` of the ids in set order, `length`
\* goes up while the id at `it` is val + length.
isRange_loop(ids, it, val, length) ==
    IF it <= Len(ids) /\ val + length = ids[it]
    THEN isRange_loop(ids, it + 1, val, length + 1)
    ELSE length

\* A faulty variant: two consecutive ids make a range.
isRange_PairIsRange(ids, it) ==
    LET length == isRange_loop(ids, it, ids[it], 0) - 1
    IN  [length |-> length, result |-> length > 0]

\* isRange: the length it leaves in its out-parameter and what it returns.
isRange(ids, it) ==
    LET length == isRange_loop(ids, it, ids[it], 0) - 1
    IN  [length |-> length, result |-> length > 1]

RECURSIVE operator_out_loop(_, _, _, _)
\* operator<<, the for loop over filter.acceptable.
operator_out_loop(ids, it, needcomma, out) ==
    IF it > Len(ids) THEN out
    ELSE LET comma == IF needcomma THEN <<Lit(", ")>> ELSE <<>>
             r == isRange(ids, it)
             last == it + r.length
         IN  IF r.result
             THEN operator_out_loop(ids, last + 1, TRUE,
                      out \o comma \o
                      <<Lit("["), Num(ids[it]), Lit(","), Num(ids[last]),
                        Lit("]")>>)
             ELSE operator_out_loop(ids, it + 1, TRUE,
                      out \o comma \o <<Num(ids[it])>>)

\* operator<<(std::ostream&, const VBucketFilter&): what the stream gets.
operator_out(filter) ==
    IF filter = {} THEN <<Lit("{ empty }")>>
    ELSE <<Lit("{ ")>>
         \o operator_out_loop(SortedSeq(filter), 1, FALSE, <<>>)
         \o <<Lit(" }")>>

\* out << filter
StreamOut ==
    /\ printed' = [of |-> acceptable, out |-> operator_out(acceptable)]
    /\ UNCHANGED <<acceptable, vbucketVars, besidePrint>>

NotPrinted == [of |-> {}, out |-> <<>>]

\* No filter is in use.
PrinterIdle ==
    /\ acceptable = {}
    /\ printed = NotPrinted

\* ------------------------------------------------------ the memory overhead
\* Width of stats.memOverhead (std::atomic<size_t>, scaled down).
OverheadBits == 5
\* sizeof(VBucket), sizeof(CheckpointManager), sizeof(HashTable) and
\* sizeof(StoredValue*), scaled down.
SizeofVBucket == 3
SizeofCheckpointManager == 2
SizeofHashTable == 1
\* Largest number of hash buckets a table has.
MaxHtSize == 3
\* vBuckets the bucket has.
MaxVBuckets == 2
BucketVBuckets == 0..MaxVBuckets - 1
\* Largest overhead counted for the bucket's other objects.
MaxOtherOverhead == 2

\* size_t arithmetic.
SizeT(n) == n % 2 ^ OverheadBits

\* HashTable::memorySize: the table itself and one pointer per hash bucket.
memorySize(table) == SizeofHashTable + table.size

\* A faulty variant: the table is counted at the size it had when the
\* vBucket was made.
Overhead_AsConstructed(vb) ==
    SizeofVBucket + memorySize([size |-> vb.constructedSize])
        + SizeofCheckpointManager

\* sizeof(VBucket) + ht.memorySize() + sizeof(CheckpointManager)
Overhead(vb) ==
    SizeofVBucket + memorySize(vb.ht) + SizeofCheckpointManager

\* VBucket::VBucket for vBucket i, its table made with `size` hash buckets.
VBucket_VBucket(i, size) ==
    LET vb == [ht |-> [size |-> size], constructedSize |-> size]
    IN  /\ i \notin DOMAIN vbMap
        /\ vbMap' = [j \in DOMAIN vbMap \cup {i} |->
                        IF j = i THEN vb ELSE vbMap[j]]
        /\ memOverhead' = SizeT(memOverhead + Overhead(vb))
        /\ UNCHANGED <<memInitial, lastDestroyed, vbucketVars, besideMem>>

\* HashTable::resize: the table of vBucket i gets newSize hash buckets, and
\* the counter follows the table's memory size.
HashTable_resize(i, newSize) ==
    LET resized == [vbMap[i] EXCEPT !.ht.size = newSize]
    IN  /\ i \in DOMAIN vbMap
        /\ newSize # vbMap[i].ht.size
        /\ vbMap' = [vbMap EXCEPT ![i] = resized]
        /\ memOverhead' = SizeT(memOverhead - memorySize(vbMap[i].ht)
                                + memorySize(resized.ht))
        /\ UNCHANGED <<memInitial, lastDestroyed, vbucketVars, besideMem>>

\* VBucket::~VBucket for vBucket i.  (The disk-queue statistic and the bloom
\* filters it clears belong to the vBucket that goes away.)
VBucket_destroy(i) ==
    /\ i \in DOMAIN vbMap
    /\ vbMap' = [j \in DOMAIN vbMap \ {i} |-> vbMap[j]]
    /\ memOverhead' = SizeT(memOverhead - Overhead(vbMap[i]))
    /\ lastDestroyed' = vbMap[i]
    /\ UNCHANGED <<memInitial, vbucketVars, besideMem>>

NoVBucket == [ht |-> [size |-> 0], constructedSize |-> 0]

\* No vBucket has been counted.
MemIdle ==
    /\ memOverhead = 0
    /\ memInitial = 0
    /\ vbMap = EmptyMap
    /\ lastDestroyed = NoVBucket

\* ----------------------------------------------- the collections manifests
\* vbucket_manifest_test.cc drives two Collections::VB::Manifest objects, an
\* active one and a replica one, and reads them through MockVBManifest.  The
\* manifest class itself is outside the source slice: its operations are
\* written here as the tests of that file pin them down, the readers and the
\* test fixture from the file's own code.

\* StoredValue::state_collection_open, the end seqno of an open collection.
state_collection_open == -6

\* Collection names and the separators a bucket manifest can carry.
DefaultCollection == "$default"
CollectionNames == {"$default", "vegetable"}
Separators == {"::", "@"}
\* Most manifest operations applied to the pair in one behaviour.
MaxManifestCalls == 4

\* Collections::Identifier: a name and a uid.
Identifier(name, uid) == [name |-> name, uid |-> uid]
Identifiers ==
    {Identifier("$default", 0), Identifier("vegetable", 1),
     Identifier("vegetable", 2)}
NoIdentifier == Identifier("", 0)

\* Collections::VB::ManifestEntry
ManifestEntry(uid, startSeqno, endSeqno) ==
    [uid |-> uid, startSeqno |-> startSeqno, endSeqno |-> endSeqno]
Entry_isDeleting(e) == e.endSeqno # state_collection_open
Entry_isOpen(e) ==
    e.endSeqno = state_collection_open \/ e.startSeqno > e.endSeqno
Entry_isExclusiveOpen(e) == Entry_isOpen(e) /\ ~Entry_isDeleting(e)
Entry_isExclusiveDeleting(e) == ~Entry_isOpen(e) /\ Entry_isDeleting(e)
Entry_isOpenAndDeleting(e) == Entry_isOpen(e) /\ Entry_isDeleting(e)

\* Manifest({}): the default collection alone, open from seqno 0, "::" as
\* the separator, and no collection being deleted.
NewManifest ==
    [map |-> [n \in {DefaultCollection} |->
                  ManifestEntry(0, 0, state_collection_open)],
     separator |-> "::",
     defaultCollectionExists |-> TRUE,
     greatestEndSeqno |-> state_collection_open,
     nDeletingCollections |-> 0]

\* ---- MockVBManifest: the readers the tests use
exists(m, identifier) ==
    /\ identifier.name \in DOMAIN m.map
    /\ m.map[identifier.name].uid = identifier.uid
isOpen(m, identifier) ==
    exists(m, identifier) /\ Entry_isOpen(m.map[identifier.name])
isExclusiveOpen(m, identifier) ==
    exists(m, identifier) /\ Entry_isExclusiveOpen(m.map[identifier.name])
isDeleting(m, identifier) ==
    exists(m, identifier) /\ Entry_isDeleting(m.map[identifier.name])
isExclusiveDeleting(m, identifier) ==
    exists(m, identifier) /\ Entry_isExclusiveDeleting(m.map[identifier.name])
isOpenAndDeleting(m, identifier) ==
    exists(m, identifier) /\ Entry_isOpenAndDeleting(m.map[identifier.name])
Manifest_size(m) == Cardinality(DOMAIN m.map)

\* rhs.compareEntry(entry): rhs holds the identifier with the same seqnos.
compareEntry(rhs, name, entry) ==
    /\ exists(rhs, Identifier(name, entry.uid))
    /\ rhs.map[name].startSeqno = entry.startSeqno
    /\ rhs.map[name].endSeqno = entry.endSeqno
    /\ rhs.map[name].uid = entry.uid

\* bool operator==(const MockVBManifest& rhs) const
MockVBManifest_eq(lhs, rhs) ==
    /\ Manifest_size(rhs) = Manifest_size(lhs)
    /\ \A name \in DOMAIN lhs.map : compareEntry(rhs, name, lhs.map[name])
    /\ rhs.separator = lhs.separator

\* isGreatestEndSeqnoCorrect()
isGreatestEndSeqnoCorrect(m) ==
    IF m.nDeletingCollections = 0
    THEN m.greatestEndSeqno = state_collection_open
    ELSE m.greatestEndSeqno >= 0

\* isNumDeletingCollectionsoCorrect()
isNumDeletingCollectionsoCorrect(m) ==
    IF m.greatestEndSeqno # state_collection_open
    THEN m.nDeletingCollections > 0
    ELSE m.nDeletingCollections = 0

\* ---- document keys
\* A DocKey of the tests: its namespace, and for a key of the Collections
\* namespace ("vegetable::carrot") the text before the separator it was
\* written with.
DocKey(ns, collection, separator) ==
    [ns |-> ns, collection |-> collection, separator |-> separator]
DocKeys ==
    {DocKey("DefaultCollection", "", "")} \cup
    {DocKey("Collections", n, s) :
        n \in CollectionNames \ {DefaultCollection}, s \in Separators}
NoCollection == ""

\* The collection a key names when it is cut at the manifest's separator:
\* a key written with another separator holds no collection name the
\* manifest knows.
collectionOf(m, key) ==
    IF key.ns = "DefaultCollection" THEN DefaultCollection
    ELSE IF key.separator = m.separator THEN key.collection
    ELSE NoCollection

\* Manifest::doesKeyContainValidCollection(key)
doesKeyContainValidCollection(m, key) ==
    IF key.ns = "DefaultCollection" THEN m.defaultCollectionExists
    ELSE /\ collectionOf(m, key) \in DOMAIN m.map
         /\ Entry_isOpen(m.map[collectionOf(m, key)])

\* A faulty variant: every key of a collection that is being deleted counts
\* as deleted, whatever its seqno.
isLogicallyDeleted_AnySeqno(m, key, seqno) ==
    /\ collectionOf(m, key) \in DOMAIN m.map
    /\ Entry_isDeleting(m.map[collectionOf(m, key)])

\* Manifest::isLogicallyDeleted(key, seqno)
isLogicallyDeleted(m, key, seqno) ==
    /\ collectionOf(m, key) \in DOMAIN m.map
    /\ seqno <= m.map[collectionOf(m, key)].endSeqno

\* ---- Collections::VB::Manifest: the operations
\* A system event as the checkpoint holds it.
SystemEvent(event, deleted, identifier, separator, bySeqno) ==
    [event |-> event, deleted |-> deleted, name |-> identifier.name,
     uid |-> identifier.uid, separator |-> separator, bySeqno |-> bySeqno]

\* The active VBucket of the fixture: nothing stored, nothing queued.
NewVBucket == [highSeqno |-> 0, events |-> <<>>]

\* queueSystemEvent: the event takes the vBucket's next seqno and joins its
\* checkpoint.
queueSystemEvent(vb, event, deleted, identifier, separator) ==
    [highSeqno |-> vb.highSeqno + 1,
     events |-> Append(vb.events,
                       SystemEvent(event, deleted, identifier, separator,
                                   vb.highSeqno + 1))]

\* A faulty variant: a collection added again keeps the start seqno it had.
addCollection_KeepsStart(m, identifier, seqno) ==
    [m EXCEPT
       !.map = [n \in DOMAIN m.map \cup {identifier.name} |->
                   IF n # identifier.name THEN m.map[n]
                   ELSE IF n \in DOMAIN m.map
                        THEN [m.map[n] EXCEPT !.uid = identifier.uid]
                        ELSE ManifestEntry(identifier.uid, seqno,
                                           state_collection_open)],
       !.defaultCollectionExists =
           @ \/ identifier.name = DefaultCollection]

\* addCollection: a new entry, or the entry of a collection that is being
\* deleted with the new uid, opens at `seqno`.
addCollection(m, identifier, seqno) ==
    [m EXCEPT
       !.map = [n \in DOMAIN m.map \cup {identifier.name} |->
                   IF n # identifier.name THEN m.map[n]
                   ELSE IF n \in DOMAIN m.map
                        THEN [m.map[n] EXCEPT !.uid = identifier.uid,
                                              !.startSeqno = seqno]
                        ELSE ManifestEntry(identifier.uid, seqno,
                                           state_collection_open)],
       !.defaultCollectionExists =
           @ \/ identifier.name = DefaultCollection]

\* trackEndSeqno: one more deletion is in progress, and the greatest end
\* seqno moves up to `seqno`.
trackEndSeqno(m, seqno) ==
    [m EXCEPT
       !.nDeletingCollections = @ + 1,
       !.greatestEndSeqno =
           IF seqno > @ \/ @ = state_collection_open THEN seqno ELSE @]

\* A faulty variant: the deletion is begun without being counted.
beginCollectionDelete_Untracked(m, identifier, seqno) ==
    [m EXCEPT
       !.map[identifier.name].endSeqno = seqno,
       !.defaultCollectionExists =
           @ /\ identifier.name # DefaultCollection]

\* beginCollectionDelete: the entry closes at `seqno`.
beginCollectionDelete(m, identifier, seqno) ==
    trackEndSeqno(
        [m EXCEPT
           !.map[identifier.name].endSeqno = seqno,
           !.defaultCollectionExists =
               @ /\ identifier.name # DefaultCollection],
        seqno)

\* cannotChangeSeparator: a collection other than the default one is open.
cannotChangeSeparator(m) ==
    \E n \in DOMAIN m.map :
        n # DefaultCollection /\ Entry_isOpen(m.map[n])

changeSeparator(m, separator) == [m EXCEPT !.separator = separator]

\* completeDeletion throws std::logic_error for a name the manifest does
\* not hold and for a collection that is not being deleted.
completeDeletion_throws(m, name) ==
    \/ name \notin DOMAIN m.map
    \/ ~Entry_isDeleting(m.map[name])

\* ManifestEntry::completeDeletion: which event ends the deletion.
Entry_completeDeletion(e) ==
    IF Entry_isExclusiveDeleting(e) THEN "DeleteCollectionHard"
    ELSE "DeleteCollectionSoft"

\* A faulty variant: the entry is erased whether the collection was added
\* again or not.
completeDeletion_AlwaysErases(m, name) ==
    [m EXCEPT
       !.map = [n \in DOMAIN m.map \ {name} |-> m.map[n]],
       !.nDeletingCollections = @ - 1,
       !.greatestEndSeqno =
           IF m.nDeletingCollections = 1 THEN state_collection_open ELSE @]

\* completeDeletion(vb, name), where it does not throw: an entry that is
\* only being deleted is erased, one that was added again stays and loses
\* its end seqno; with the last deletion the greatest end seqno is reset.
completeDeletion(m, name) ==
    [m EXCEPT
       !.map =
           IF Entry_isExclusiveDeleting(m.map[name])
           THEN [n \in DOMAIN m.map \ {name} |-> m.map[n]]
           ELSE [m.map EXCEPT ![name].endSeqno = state_collection_open],
       !.nDeletingCollections = @ - 1,
       !.greatestEndSeqno =
           IF m.nDeletingCollections = 1 THEN state_collection_open ELSE @]

\* ---- Manifest::update(vb, manifest)
\* A bucket manifest: a separator and the collections, in the order of the
\* JSON array.
BucketManifest(separator, collections) ==
    [separator |-> separator, collections |-> collections]
BucketManifests ==
    {BucketManifest(s, c) :
        s \in Separators,
        c \in {<<>>} \cup {<<i>> : i \in Identifiers} \cup
              {p \in Identifiers \X Identifiers : p[1].name # p[2].name}}
Listed(json) == {json.collections[i] : i \in DOMAIN json.collections}

\* A faulty variant: every collection the new manifest does not list is to
\* be deleted, also one that is being deleted already.
deletions_NotListed(m, json) ==
    {Identifier(n, m.map[n].uid) : n \in
        {n \in DOMAIN m.map :
            Identifier(n, m.map[n].uid) \notin Listed(json)}}

\* processManifest: the open collections the new manifest does not list
\* are to be deleted ...
deletions(m, json) ==
    {Identifier(n, m.map[n].uid) : n \in
        {n \in DOMAIN m.map :
            /\ Entry_isOpen(m.map[n])
            /\ Identifier(n, m.map[n].uid) \notin Listed(json)}}
\* ... and the listed ones the manifest does not hold open are to be added.
isAddition(m, identifier) ==
    \/ identifier.name \notin DOMAIN m.map
    \/ ~isOpen(m, identifier)
additions(m, json) ==
    SelectSeq(json.collections, LAMBDA i : isAddition(m, i))

\* The manifest and the vBucket while update works through its changes.
Pair(m, vb) == [m |-> m, vb |-> vb]

RECURSIVE deleteAll(_, _)
deleteAll(p, ids) ==
    IF ids = <<>> THEN p
    ELSE deleteAll(
             Pair(beginCollectionDelete(p.m, Head(ids), p.vb.highSeqno + 1),
                  queueSystemEvent(p.vb, "Collection", TRUE, Head(ids), "")),
             Tail(ids))

RECURSIVE addAll(_, _)
addAll(p, ids) ==
    IF ids = <<>> THEN p
    ELSE addAll(
             Pair(addCollection(p.m, Head(ids), p.vb.highSeqno + 1),
                  queueSystemEvent(p.vb, "Collection", FALSE, Head(ids), "")),
             Tail(ids))

\* update throws when the separator differs and cannot be changed.
update_throws(m, json) ==
    json.separator # m.separator /\ cannotChangeSeparator(m)

\* The orders in which update can meet the collections to delete (the
\* iteration order of the std::unordered_map).
Orders(S) ==
    {s \in UNION {[1..Cardinality(S) -> S]} :
        \A i, j \in DOMAIN s : i # j => s[i] # s[j]}

\* update, where it does not throw: the separator changes first, then the
\* deletions begin, then the additions are made.
Manifest_update(m, vb, json, order) ==
    LET sep == IF json.separator = m.separator THEN Pair(m, vb)
               ELSE Pair(changeSeparator(m, json.separator),
                         queueSystemEvent(vb, "CollectionsSeparatorChanged",
                                          FALSE, NoIdentifier,
                                          json.separator))
    IN addAll(deleteAll(sep, order), additions(m, json))

\* ---- the replica's side
\* A faulty variant: the replica opens the collection at seqno 0 instead of
\* the seqno of the event.
replicaAdd_StartsAtZero(m, identifier, startSeqno) ==
    addCollection(m, identifier, 0)

\* replicaAdd(vb, identifier, startSeqno)
replicaAdd(m, identifier, startSeqno) ==
    addCollection(m, identifier, startSeqno)
\* addCollectionEntry throws for a collection that is open.
replicaAdd_throws(m, identifier) ==
    identifier.name \in DOMAIN m.map /\ Entry_isOpen(m.map[identifier.name])

\* replicaBeginDelete(vb, identifier, endSeqno)
replicaBeginDelete(m, identifier, endSeqno) ==
    beginCollectionDelete(m, identifier, endSeqno)
\* beginDeleteCollectionEntry throws for a collection it does not find.
replicaBeginDelete_throws(m, identifier) ==
    identifier.name \notin DOMAIN m.map

\* replicaChangeSeparator(vb, separator, seqno)
replicaChangeSeparator(m, separator) == changeSeparator(m, separator)

\* The replica manifest while the events are applied, and whether one of
\* the calls threw.
Replay(m, thrown) == [m |-> m, thrown |-> thrown]

\* The switch of applyCheckpointEventsToReplica for one event.
applyEvent(m, qi, args) ==
    IF qi.event = "Collection" /\ qi.deleted
    THEN Replay(IF replicaBeginDelete_throws(m, Identifier(qi.name, qi.uid))
                THEN m
                ELSE replicaBeginDelete(m, Identifier(qi.name, qi.uid),
                                        qi.bySeqno),
                replicaBeginDelete_throws(m, Identifier(qi.name, qi.uid)))
    ELSE IF qi.event = "Collection"
    THEN Replay(IF replicaAdd_throws(m, Identifier(qi.name, qi.uid))
                THEN m
                ELSE replicaAdd(m, Identifier(qi.name, qi.uid), qi.bySeqno),
                replicaAdd_throws(m, Identifier(qi.name, qi.uid)))
    ELSE IF qi.event = "CollectionsSeparatorChanged"
    THEN Replay(replicaChangeSeparator(m, qi.separator), FALSE)
    ELSE Replay(IF completeDeletion_throws(m, args.name)
                THEN m
                ELSE completeDeletion(m, args.name),
                completeDeletion_throws(m, args.name))

RECURSIVE applyEvents(_, _, _)
\* for (const auto& qi : events): the loop ends with the first exception.
applyEvents(r, events, args) ==
    IF events = <<>> \/ r.thrown THEN r
    ELSE applyEvents(applyEvent(r.m, Head(events), args), Tail(events), args)

\* getEventsFromCheckpoint throws when the cursor finds no system event.
applyCheckpointEventsToReplica(m, events, args) ==
    IF events = <<>> THEN Replay(m, TRUE)
    ELSE applyEvents(Replay(m, FALSE), events, args)

\* ---- ActiveReplicaManifest: the calls of the tests
NoManifestCall ==
    [op |-> "none", name |-> "", uid |-> 0, json |-> BucketManifest("", <<>>),
     thrown |-> FALSE, events |-> <<>>, result |-> "none",
     before |-> NewManifest, highSeqno |-> 0, calls |-> 0]

\* checkNumDeletingCollections() and checkGreatestEndSeqno()
checkCounters(a, r) ==
    /\ isNumDeletingCollectionsoCorrect(a)
    /\ isNumDeletingCollectionsoCorrect(r)
    /\ isGreatestEndSeqnoCorrect(a)
    /\ isGreatestEndSeqnoCorrect(r)

\* What a call changes once the active manifest has been changed to `p.m`
\* with the events of `p.vb` queued: the events are read through the
\* persistence cursor and applied to the replica.
Replayed(p, args, call, counted) ==
    LET r == applyCheckpointEventsToReplica(replica, p.vb.events, args)
    IN /\ active' = p.m
       /\ vbA' = [p.vb EXCEPT !.events = <<>>]
       /\ replica' = r.m
       /\ fixtureLastSeqno' = IF p.vb.events = <<>> THEN fixtureLastSeqno
                       ELSE p.vb.events[Len(p.vb.events)].bySeqno
       /\ lastCompleteDeletionArgs' = args
       /\ manifestCall' =
            [call EXCEPT
               !.events = p.vb.events,
               !.result =
                   IF /\ ~r.thrown
                      /\ MockVBManifest_eq(p.m, r.m)
                      /\ counted => checkCounters(p.m, r.m)
                   THEN "success" ELSE "failure"]

\* ::testing::AssertionResult update(const char* json)
Harness_update(json, order) ==
    LET call == [NoManifestCall EXCEPT
                    !.op = "update", !.json = json, !.before = active,
                    !.highSeqno = vbA.highSeqno,
                    !.thrown = update_throws(active, json),
                    !.calls = manifestCall.calls + 1]
    IN /\ manifestCall.calls < MaxManifestCalls
       /\ IF update_throws(active, json)
          THEN /\ manifestCall' = [call EXCEPT !.result = "failure"]
               /\ UNCHANGED <<active, replica, vbA, fixtureLastSeqno,
                              lastCompleteDeletionArgs>>
          ELSE Replayed(Manifest_update(active, vbA, json, order),
                        lastCompleteDeletionArgs, call, TRUE)
       /\ UNCHANGED <<vbucketVars, besideManifest>>

\* ::testing::AssertionResult completeDeletion(Collections::Identifier)
Harness_completeDeletion(identifier) ==
    LET call == [NoManifestCall EXCEPT
                    !.op = "completeDeletion", !.name = identifier.name,
                    !.uid = identifier.uid, !.before = active,
                    !.highSeqno = vbA.highSeqno,
                    !.thrown = completeDeletion_throws(active,
                                                       identifier.name),
                    !.calls = manifestCall.calls + 1]
    IN /\ manifestCall.calls < MaxManifestCalls
       /\ IF completeDeletion_throws(active, identifier.name)
          THEN /\ manifestCall' = [call EXCEPT !.result = "failure"]
               /\ UNCHANGED <<active, replica, vbA, fixtureLastSeqno,
                              lastCompleteDeletionArgs>>
          ELSE Replayed(
                   Pair(completeDeletion(active, identifier.name),
                        queueSystemEvent(
                            vbA,
                            Entry_completeDeletion(
                                active.map[identifier.name]),
                            FALSE,
                            Identifier(identifier.name,
                                       active.map[identifier.name].uid),
                            "")),
                   identifier, call, FALSE)
       /\ UNCHANGED <<vbucketVars, besideManifest>>

\* The manifests as the fixture builds them.
ManifestIdle ==
    /\ active = NewManifest
    /\ replica = NewManifest
    /\ vbA = NewVBucket
    /\ fixtureLastSeqno = 0
    /\ lastCompleteDeletionArgs = NoIdentifier
    /\ manifestCall = NoManifestCall

\* ------------------------------------------------- fireAllOps, step by step
\* Most pending ops parked in one run of SpecFire.
MaxOps == 2

\* A thread that is not inside fireAllOps: what it notified so far, whether
\* its last call drained the list, and the list as that call left it.
FireIdle ==
    [pc |-> "idle", key |-> "", held |-> {}, caller |-> "fireAllOps",
     code |-> NoStatus, op |-> 0, fired |-> <<>>, drained |-> FALSE,
     left |-> <<>>]

\* The ops parked so far are numbered as they arrive: the ops in the list,
\* those a thread has popped and those that were notified.
PoppedOps ==
    {threads[t].op : t \in {u \in Threads : threads[u].pc = "notifying"}}
FiredOps ==
    UNION {{threads[t].fired[i].cookie : i \in 1..Len(threads[t].fired)}
              : t \in Threads}
ParkedOps ==
    {pendingOps[i] : i \in 1..Len(pendingOps)} \cup PoppedOps \cup FiredOps
LastOp == IF ParkedOps = {} THEN 0
          ELSE CHOOSE n \in ParkedOps : \A m \in ParkedOps : m <= n

\* A faulty variant: the op is read from the back and left in the list.
PopBack_Peek(list) ==
    [op |-> list[Len(list)], rest |-> list]

\* pendingOperation = pendingOps.back(); pendingOps.pop_back()
PopBack(list) ==
    [op |-> list[Len(list)], rest |-> SubSeq(list, 1, Len(list) - 1)]

\* fireAllOps(engine, code), the head of the while loop under pendingOpLock:
\* with the list empty the call returns; otherwise the newest op is popped
\* and the mutex released for the notification.
fireAllOps_loop(t, code) ==
    IF pendingOps = <<>>
    THEN /\ threads' = [threads EXCEPT ![t] =
                [@ EXCEPT !.pc = "idle", !.code = code, !.op = 0,
                          !.drained = TRUE, !.left = pendingOps]]
         /\ UNCHANGED pendingOps
    ELSE /\ threads' = [threads EXCEPT ![t] =
                [@ EXCEPT !.pc = "notifying", !.code = code,
                          !.op = PopBack(pendingOps).op]]
         /\ pendingOps' = PopBack(pendingOps).rest

\* What fireAllOps leaves alone.
fireAllOps_frame ==
    /\ UNCHANGED <<state, openCheckpointId, hpChks, numHpChks,
                   highPriorityCount, pendingBGFetches, chkFlushTimeout, now,
                   lastCall, pre, walkLog, notified>>
    /\ UNCHANGED <<queueVars, counters, metaDataDisk, ghost, restVars,
                   eviction>>

\* VBucket::fireAllOps(engine) on a thread, up to the first release of
\* pendingOpLock: the code is chosen by the state (nothing is done on a
\* Pending vBucket); a call that finds pendingOpsStart at zero returns;
\* otherwise the timer is cleared and the loop is entered.
fireAllOps_enter(t) ==
    /\ threads[t].pc = "idle"
    /\ state # vbucket_state_pending
    /\ LET code == IF state = vbucket_state_active THEN ENGINE_SUCCESS
                   ELSE ENGINE_NOT_MY_VBUCKET
       IN IF pendingOpsStart > 0
          THEN /\ pendingOpsStart' = 0
               /\ fireAllOps_loop(t, code)
          ELSE /\ threads' = [threads EXCEPT ![t] =
                      [@ EXCEPT !.code = code, !.drained = FALSE,
                                !.left = pendingOps]]
               /\ UNCHANGED <<pendingOps, pendingOpsStart>>
    /\ locks' = Nesting(<<Acquire(pendingOpLock), Release(pendingOpLock)>>,
                        {}, locks)
    /\ fireAllOps_frame

\* engine.notifyIOComplete(pendingOperation, code), pendingOpLock released.
fireAllOps_notify(t) ==
    /\ threads[t].pc = "notifying"
    /\ threads' = [threads EXCEPT ![t] =
          [@ EXCEPT !.pc = "relock",
                    !.fired = Append(@, [cookie |-> threads[t].op,
                                         status |-> threads[t].code])]]
    /\ locks' = Nesting(<<Invoke(notifyIOComplete)>>, {}, locks)
    /\ UNCHANGED <<pendingOps, pendingOpsStart>>
    /\ fireAllOps_frame

\* lh.lock() and the next turn of the loop.
fireAllOps_relock(t) ==
    /\ threads[t].pc = "relock"
    /\ fireAllOps_loop(t, threads[t].code)
    /\ locks' = Nesting(<<Acquire(pendingOpLock), Release(pendingOpLock)>>,
                        {}, locks)
    /\ UNCHANGED pendingOpsStart
    /\ fireAllOps_frame

\* ---------------------------------------------------------- the expiry pager
\* item_pager_test.cc stores documents with and without a TTL in an Active
\* vBucket, moves the clock, runs the expiry pager and reads the documents
\* back.  The pager and the bucket's get are outside the source slice: the
\* pager is written as the test pins it down, the read as a call of
\* VBucket::fetchValidValue that asks for expired items to be queued.
PagerKeys == {"key_0", "key_1", "key_2"}
\* The order in which the test stores them.
StoreOrder == <<"key_0", "key_1", "key_2">>
\* The expiry times the documents are stored with: none, and two in the
\* future of the store.
ExpiryTimes == {0, 2, 3}

\* VBucket::getNumItems under VALUE_ONLY: the items in memory that are
\* neither deleted nor temporary.
getNumItems(table) ==
    Cardinality({k \in DOMAIN table :
                    ~table[k].deleted /\ ~isTempItem(table[k])})

\* The hash table and the checkpoint manager while a call works on them.
Stores(table, cm) == [table |-> table, cm |-> cm]

\* VBucket::queueDirty(v) with a generated seqno and CAS, in one step.
queueDirtyNow(s, key) ==
    LET done == CheckpointManager_queueDirty(
                    s.cm, ToItem(s.table[key], key), TRUE, TRUE)
    IN Stores([s.table EXCEPT
                  ![key] = StampStoredValue(@, done.qi, TRUE)],
              [done.cm EXCEPT
                  !.history = Append(@, [key |-> key,
                                         value |-> s.table[key].value,
                                         bySeqno |-> done.qi.bySeqno])])

\* A faulty variant: the item is soft-deleted but the deletion is not
\* queued.
expireItem_Unqueued(s, key) ==
    Stores([s.table EXCEPT ![key] = unlocked_softDelete(@)], s.cm)

\* incExpirationStat; ht.unlocked_softDelete(v, 0, eviction); queueDirty(*v)
expireItem(s, key) ==
    queueDirtyNow(
        Stores([s.table EXCEPT ![key] = unlocked_softDelete(@)], s.cm), key)

\* The live items whose expiry time has passed at `asof`.
ExpiredItems(table, asof) ==
    {k \in DOMAIN table :
        /\ ~table[k].deleted
        /\ ~isTempItem(table[k])
        /\ isExpired(table[k], asof)}

RECURSIVE expireAll(_, _)
expireAll(s, keys) ==
    IF keys = <<>> THEN s
    ELSE expireAll(expireItem(s, Head(keys)), Tail(keys))

\* storeItem(item): the next document of the test's loop is stored with
\* its expiry time and queued.
Pager_storeItem(key, exptime) ==
    /\ key \notin DOMAIN ht
    /\ key = StoreOrder[Cardinality(DOMAIN ht) + 1]
    /\ LET s == queueDirtyNow(
                    Stores([k \in DOMAIN ht \cup {key} |->
                               IF k # key THEN ht[k]
                               ELSE [StoredValue(1, 0, 0) EXCEPT
                                        !.exptime = exptime]],
                           ckpt),
                    key)
       IN /\ ht' = s.table
          /\ ckpt' = s.cm
    /\ lastCall' = [op |-> "storeItem", key |-> key]
    /\ UNCHANGED <<state, openCheckpointId, hpChks, numHpChks,
                   highPriorityCount, pendingOps, pendingOpsStart,
                   pendingBGFetches, chkFlushTimeout, now, pre, walkLog,
                   notified>>
    /\ UNCHANGED <<seqnoLog, statVars, restVars, fetchVars>>

\* store->flushVBucket(vbid): the persistence cursor takes all items queued
\* since it last ran; their number is returned.
Pager_flushVBucket ==
    /\ ckpt' = [ckpt EXCEPT !.cursors["persistence"] = Len(ckpt.items)]
    /\ lastCall' = [op |-> "flushVBucket",
                    flushed |-> Len(ItemsForCursor(ckpt, "persistence"))]
    /\ UNCHANGED <<state, openCheckpointId, hpChks, numHpChks,
                   highPriorityCount, pendingOps, pendingOpsStart,
                   pendingBGFetches, chkFlushTimeout, now, pre, walkLog,
                   notified>>
    /\ UNCHANGED <<ht, seqnoLog, statVars, restVars, fetchVars>>

\* runExpiryPager(): the pager's task and the vBucket's task run to their
\* end; every live item found expired is soft-deleted and queued, in the
\* order the visitor meets them.
runExpiryPager(order) ==
    /\ LET s == expireAll(Stores(ht, ckpt), order)
       IN /\ ht' = s.table
          /\ ckpt' = s.cm
    /\ lastCall' = [op |-> "runExpiryPager", asof |-> ep_real_time,
                    table |-> ht, queued |-> [k \in PagerKeys |-> QueuedFor(k)],
                    pending |-> Len(ItemsForCursor(ckpt, "persistence"))]
    /\ UNCHANGED <<state, openCheckpointId, hpChks, numHpChks,
                   highPriorityCount, pendingOps, pendingOpsStart,
                   pendingBGFetches, chkFlushTimeout, now, pre, walkLog,
                   notified>>
    /\ UNCHANGED <<seqnoLog, statVars, restVars, fetchVars>>

\* What store->get(key, vbid, cookie, options) answers on a table, and what
\* it leaves behind: the lookup goes through fetchValidValue with
\* queueExpired set.
GetAnswer(table, st, asof, key) ==
    IF FetchValidValue(table, st, asof, key, FALSE, TRUE).v
    THEN ENGINE_SUCCESS ELSE ENGINE_KEY_ENOENT

Pager_get(key) ==
    /\ LET done == FetchValidValue(ht, state, ep_real_time, key, FALSE, TRUE)
           s == IF done.expire THEN expireItem(Stores(ht, ckpt), key)
                ELSE Stores(ht, ckpt)
       IN /\ ht' = s.table
          /\ ckpt' = s.cm
    /\ lastCall' = [op |-> "get", key |-> key,
                    status |-> GetAnswer(ht, state, ep_real_time, key)]
    /\ UNCHANGED <<state, openCheckpointId, hpChks, numHpChks,
                   highPriorityCount, pendingOps, pendingOpsStart,
                   pendingBGFetches, chkFlushTimeout, now, pre, walkLog,
                   notified>>
    /\ UNCHANGED <<seqnoLog, statVars, restVars, fetchVars>>

\* No command has arrived.
CommandIdle ==
    /\ cmd = NoCommand
    /\ conn = NoConnection
    /\ cmdLog = <<>>

\* Nothing outside the VBucket is in use.
ExtIdle ==
    /\ CommandIdle
    /\ PrinterIdle
    /\ MemIdle
    /\ ManifestIdle

\* ------------------------------------------------------------ specifications
\* The VBucket constructor's member initialisers, for a vBucket built in
\* state `st`; chkFlushTimeout is the static's initialiser.
WaiterInit(st) ==
    /\ state = st
    /\ openCheckpointId = 1
    /\ hpChks = <<>>
    /\ numHpChks = 0
    /\ highPriorityCount = 0
    /\ pendingOps = <<>>
    /\ pendingOpsStart = 0
    /\ pendingBGFetches = EmptyMap
    /\ chkFlushTimeout = MIN_CHK_FLUSH_TIMEOUT
    /\ now = 1
    /\ lastCall = NoCall
    /\ pre = NoSnapshot
    /\ walkLog = <<>>
    /\ notified = <<>>
    /\ bFilter = NULL
    /\ tempFilter = NULL
    /\ filterLog = <<>>
    /\ filterPre = [bFilter |-> NULL, tempFilter |-> NULL]
    /\ locks = NoNesting

QueueIdle ==
    /\ eviction = VALUE_ONLY
    /\ ht = EmptyMap
    /\ ckpt = EmptyMap
    /\ seqnoLog = {}
    /\ threads = [t \in Threads |-> Idle]

StatsIdle ==
    /\ counters = EmptyMap
    /\ metaDataDisk = 0
    /\ ghost = EmptyMap

\* Spec: waiters are registered and resolved by notifyOnPersistence while the
\* clock advances and the process-wide timeout is adjusted.
Init ==
    /\ WaiterInit(vbucket_state_active)
    /\ ExtIdle
    /\ QueueIdle
    /\ StatsIdle

Next ==
    \/ \E id \in TargetIds, cookie \in Cookies, isBySeqno \in BOOLEAN :
          /\ Len(hpChks) < MaxWaiters
          /\ addHighPriorityVBEntry(id, cookie, isBySeqno)
    \/ \E idNum \in PersistedIds, isBySeqno \in BOOLEAN :
          notifyOnPersistence(idNum, isBySeqno)
    \/ \E wall_time \in WallTimes :
          adjustCheckpointFlushTimeout(wall_time)
    \/ Tick

Spec == Init /\ [][Next]_vars

\* SpecLive: Spec with waiters registered early enough for the explored
\* clock to take them past MAX_CHK_FLUSH_TIMEOUT, under the schedule in which
\* time advances and notifyOnPersistence keeps being called for both wait
\* types.
RegistrationTimes ==
    {t \in 1..MaxTime : t + MAX_CHK_FLUSH_TIMEOUT < MaxTime}

Persisted(isBySeqno) ==
    \E idNum \in PersistedIds : notifyOnPersistence(idNum, isBySeqno)

LiveNext ==
    \/ \E id \in TargetIds, cookie \in Cookies, isBySeqno \in BOOLEAN :
          /\ Len(hpChks) < MaxWaiters
          /\ now \in RegistrationTimes
          /\ addHighPriorityVBEntry(id, cookie, isBySeqno)
    \/ \E isBySeqno \in BOOLEAN : Persisted(isBySeqno)
    \/ \E wall_time \in WallTimes :
          adjustCheckpointFlushTimeout(wall_time)
    \/ Tick

SpecLive ==
    /\ Init
    /\ [][LiveNext]_vars
    /\ WF_vars(Tick)
    /\ \A isBySeqno \in BOOLEAN : WF_vars(Persisted(isBySeqno))

\* SpecNotify: cookies are parked as waiters, pending ops and background
\* fetches; the state changes; the sweeps run.
NumParked == Len(hpChks) + Len(pendingOps) + NumFetches

NotifyInit ==
    /\ \E st \in VBStates : WaiterInit(st)
    /\ ExtIdle
    /\ QueueIdle
    /\ StatsIdle

NotifyNext ==
    \/ \E cookie \in Cookies, isBySeqno \in BOOLEAN :
          /\ NumParked < MaxParked
          /\ addHighPriorityVBEntry(1, cookie, isBySeqno)
    \/ \E cookie \in Cookies :
          /\ NumParked < MaxParked
          /\ addPendingOp(cookie)
    \/ \E key \in Keys, cookie \in Cookies, metaDataOnly \in BOOLEAN :
          /\ NumParked < MaxParked
          /\ queueBGFetchItem(key, cookie, metaDataOnly)
    \/ getBGFetchItems
    \/ \E to \in VBStates : setState(to)
    \/ fireAllOps
    \/ notifyAllPendingConnsFailed

SpecNotify == NotifyInit /\ [][NotifyNext]_vars

\* SpecState: the state changes while the open checkpoint is renumbered and
\* waiters and pending ops are parked.
StateInit ==
    /\ \E st \in VBStates : WaiterInit(st)
    /\ ExtIdle
    /\ QueueIdle
    /\ StatsIdle

StateNext ==
    \/ \E to \in VBStates : setState(to)
    \/ \E id \in 0..MaxCheckpointId : setOpenCheckpointId(id)
    \/ \E cookie \in Cookies :
          /\ Len(hpChks) < 1
          /\ addHighPriorityVBEntry(1, cookie, TRUE)
    \/ \E cookie \in Cookies :
          /\ Len(pendingOps) < 1
          /\ addPendingOp(cookie)

SpecState == StateInit /\ [][StateNext]_vars

\* SpecQueue: threads queue mutations through VBucket::queueDirty while the
\* cursors drain the open checkpoint.
QueueInit ==
    /\ \E st \in {vbucket_state_active, vbucket_state_replica} :
          WaiterInit(st)
    /\ ExtIdle
    /\ StatsIdle
    /\ eviction = VALUE_ONLY
    /\ ht = EmptyMap
    /\ seqnoLog = {}
    /\ threads = [t \in Threads |-> Idle]
    /\ \E lastSeqno \in InitialSeqnos :
          ckpt = [lastBySeqno |-> lastSeqno, maxCas |-> 0, items |-> <<>>,
                  keyIndex |-> EmptyMap,
                  cursors |-> [c \in Cursors |-> 0],
                  history |-> <<>>, constructedWith |-> lastSeqno,
                  queuedSinceAdvance |-> [k \in Keys |-> 0]]

QueueNext ==
    \/ \E t \in Threads, key \in Keys, value \in Values :
          /\ ckpt.lastBySeqno + Cardinality({u \in Threads :
                                               threads[u].pc = "locked"})
                < MaxSeqno
          /\ \/ /\ state = vbucket_state_active
                /\ LockAndStore(t, key, value, TRUE, 0)
             \/ /\ state = vbucket_state_replica
                /\ \E seqno \in ckpt.lastBySeqno + 1 .. MaxSeqno :
                      LockAndStore(t, key, value, FALSE, seqno)
    \/ \E t \in Threads : queueDirty_enqueue(t)
    \/ \E t \in Threads : queueDirty_finish(t)
    \/ \E cursor \in Cursors : getAllItemsForCursor(cursor)

SpecQueue == QueueInit /\ [][QueueNext]_vars

\* SpecStats: items are counted into the dirty queue while two flusher
\* threads count them out and the statistics are reset; items are counted
\* onto and off the disk.
StatsInit ==
    /\ WaiterInit(vbucket_state_active)
    /\ ExtIdle
    /\ QueueIdle
    /\ counters = [c \in DirtyCounters |-> 0]
    /\ metaDataDisk = 0
    /\ ghost = FreshGhost

\* The flushes under way that have not counted their drain yet.
NotDrained ==
    Cardinality({t \in Threads : threads[t].pc # "idle"
                                    /\ threads[t].stage = 1})

StatsNext ==
    \/ \E qi \in StatItems :
          /\ counters["dirtyQueueFill"] < MaxQueued
          /\ doStatsForQueueing(qi.queuedTime, qi.itemBytes)
    \/ \E t \in Threads, qi \in StatItems :
          /\ counters["dirtyQueueDrain"] + NotDrained < MaxFlushed
          /\ doStatsForFlushing(t, qi.queuedTime, qi.itemBytes)
    \/ \E t \in Threads : decrDirtyQueue_load(t)
    \/ \E t \in Threads : decrDirtyQueue_compare_exchange(t)
    \/ resetStats

SpecStats == StatsInit /\ [][StatsNext]_vars

\* SpecDisk: items are counted onto the disk and off it again.
DiskInit ==
    /\ WaiterInit(vbucket_state_active)
    /\ ExtIdle
    /\ QueueIdle
    /\ counters = [c \in DirtyCounters |-> 0]
    /\ metaDataDisk = 0
    /\ ghost = FreshDiskGhost

DiskNext ==
    \/ \E keySize \in KeySizes :
          /\ ghost.metaCalls < MaxOnDisk
          /\ incrMetaDataDisk(keySize)
    \/ \E keySize \in KeySizes : decrMetaDataDisk(keySize)

SpecDisk == DiskInit /\ [][DiskNext]_vars

\* SpecFilter: the bloom-filter pair through creation, compaction and swap.
FilterInit ==
    /\ WaiterInit(vbucket_state_active)
    /\ ExtIdle
    /\ QueueIdle
    /\ StatsIdle

FilterNext ==
    /\ Len(filterLog) < MaxFilterOps
    /\ \/ createFilter
       \/ initTempFilter
       \/ \E key \in Keys : addToFilter(key)
       \/ \E key \in Keys : addToTempFilter(key)
       \/ swapFilter
       \/ clearFilter
       \/ \E to \in FilterStatuses : setFilterStatus(to)

SpecFilter == FilterInit /\ [][FilterNext]_vars

\* SpecFetch: readers look a key up through fetchValidValue and writers
\* store it, while the clock passes the item's expiry time.
InitialValues ==
    {[StoredValue(1, 0, 0) EXCEPT !.exptime = exptime, !.resident = resident]
        : exptime \in {0, 1}, resident \in BOOLEAN}
    \cup {[StoredValue(0, 0, 0) EXCEPT !.deleted = TRUE, !.exptime = 1],
          [StoredValue(0, 0, 0) EXCEPT !.temp = "initial",
                                       !.resident = FALSE]}

FetchInit ==
    /\ \E st \in {vbucket_state_active, vbucket_state_replica} :
          WaiterInit(st)
    /\ ExtIdle
    /\ StatsIdle
    /\ eviction \in EvictionPolicies
    /\ ht \in {EmptyMap} \cup {[k \in FetchKeys |-> sv] : sv \in InitialValues}
    /\ seqnoLog = {}
    /\ threads = [t \in Threads |-> Idle]
    /\ ckpt = [lastBySeqno |-> 0, maxCas |-> 0, items |-> <<>>,
               keyIndex |-> EmptyMap,
               cursors |-> [c \in Cursors |-> 0],
               history |-> <<>>, constructedWith |-> 0,
               queuedSinceAdvance |-> [k \in Keys |-> 0]]

\* Seqnos are left for the operations under way and one more.
SeqnosLeft ==
    ckpt.lastBySeqno + Cardinality({u \in Threads : threads[u].pc # "idle"})
        < MaxSeqno

FetchNext ==
    \/ \E t \in Threads, key \in FetchKeys, value \in Values :
          /\ SeqnosLeft
          /\ state = vbucket_state_active
          /\ LockAndStore(t, key, value, TRUE, 0)
    \/ \E t \in Threads, key \in FetchKeys,
          wantsDeleted \in BOOLEAN, queueExpired \in BOOLEAN :
          /\ SeqnosLeft
          /\ getLockedBucket(t, key, wantsDeleted, queueExpired)
    \/ \E t \in Threads : fetchValidValue(t)
    \/ \E t \in Threads : queueDirty_enqueue(t)
    \/ \E t \in Threads : queueDirty_finish(t)
    \/ \E t \in Threads : unlockBucket(t)
    \/ now < 2 /\ Tick

SpecFetch == FetchInit /\ [][FetchNext]_vars

\* SpecBgFetch: fetches are parked for a key and the background fetcher
\* completes them, while the clock passes the item's expiry time.
\* The background-fetcher thread of the vBucket's shard.
BgFetchers == {"t2"}

\* The fetches parked or being completed.
FetchesUnderWay ==
    LET Batch(t) == IF threads[t].pc = "idle" THEN 0
                    ELSE Len(threads[t].batch)
    IN NumFetches + Batch("t1") + Batch("t2")

BgFetchNext ==
    \/ \E key \in FetchKeys, cookie \in Cookies, metaDataOnly \in BOOLEAN :
          /\ FetchesUnderWay < MaxFetches
          /\ queueBGFetchItem(key, cookie, metaDataOnly)
    \/ \E t \in BgFetchers : BgFetcher_run(t)
    \/ \E t \in BgFetchers : completeBGFetchForSingleItem_lock(t)
    \/ \E t \in BgFetchers : fetchValidValue(t)
    \/ \E t \in BgFetchers : queueDirty_enqueue(t)
    \/ \E t \in BgFetchers : queueDirty_finish(t)
    \/ \E t \in BgFetchers : completeBGFetchForSingleItem_restore(t)
    \/ \E t \in BgFetchers : BgFetcher_notify(t)
    \/ \E t \in BgFetchers : BgFetcher_done(t)
    \/ now < 2 /\ Tick

SpecBgFetch == FetchInit /\ [][BgFetchNext]_vars

\* SpecCommand: get, add, set and replace commands arrive on a connection
\* and are stepped to their end, against a table that holds the key or not,
\* while a Pending or Replica vBucket becomes Active and a value is brought
\* back into memory; a call of step() that has started is carried on to its
\* return.
CasValues == {0, 1}
Datatypes == {PROTOCOL_BINARY_RAW_BYTES, PROTOCOL_BINARY_DATATYPE_JSON}

CommandInit ==
    /\ \E st \in {vbucket_state_active, vbucket_state_replica,
                  vbucket_state_pending} : WaiterInit(st)
    /\ StatsIdle
    /\ ExtIdle
    /\ eviction = VALUE_ONLY
    /\ ckpt = EmptyMap
    /\ seqnoLog = {}
    /\ threads = [t \in Threads |-> Idle]
    /\ ht \in {EmptyMap} \cup
              {[k \in FetchKeys |-> sv] :
                  sv \in {StoredValue(1, 1, 1),
                          [StoredValue(1, 1, 1) EXCEPT !.resident = FALSE],
                          [StoredValue(0, 1, 1) EXCEPT !.deleted = TRUE]}}

\* The background fetcher brings a value back into memory.
restoreValue(key) ==
    /\ IsLive(ht, key)
    /\ ~ht[key].resident
    /\ ht' = [ht EXCEPT ![key] = unlocked_restoreValue(@)]
    /\ UNCHANGED <<waiterVars, ckpt, seqnoLog, statVars, filterVars,
                   fetchVars, extVars>>

CommandNext ==
    \/ \E key \in FetchKeys : NewCommand(GetCommandContext(key))
    \/ \E op_ \in StoreOperations, key \in FetchKeys, value \in Values,
          cas \in CasValues, datatype \in Datatypes :
          NewCommand(MutationCommandContext(op_, key, value, cas, datatype))
    \/ step
    \/ RunHandler
    \/ /\ ~cmd.running
       /\ state # vbucket_state_active
       /\ setState(vbucket_state_active)
    \/ /\ ~cmd.running
       /\ \E key \in FetchKeys : restoreValue(key)

SpecCommand ==
    CommandInit /\ [][CommandNext]_vars /\ WF_vars(RunHandler)

\* SpecPrinter: a filter over any set of ids is combined with other filters
\* and written to a stream.
PrinterInit ==
    /\ WaiterInit(vbucket_state_active)
    /\ QueueIdle
    /\ StatsIdle
    /\ CommandIdle
    /\ MemIdle
    /\ ManifestIdle
    /\ acceptable \in SUBSET VBucketIds
    /\ printed = NotPrinted

PrinterNext ==
    \/ \E other \in SUBSET VBucketIds : filter_diff(other)
    \/ \E other \in SUBSET VBucketIds : filter_intersection(other)
    \/ StreamOut

SpecPrinter == PrinterInit /\ [][PrinterNext]_vars

\* SpecMemory: vBuckets of one bucket are made, their hash tables are
\* resized, and they are destroyed, in any order.
MemoryInit ==
    /\ WaiterInit(vbucket_state_active)
    /\ QueueIdle
    /\ StatsIdle
    /\ CommandIdle
    /\ PrinterIdle
    /\ ManifestIdle
    /\ memInitial \in 0..MaxOtherOverhead
    /\ memOverhead = memInitial
    /\ vbMap = EmptyMap
    /\ lastDestroyed = NoVBucket

MemoryNext ==
    \/ \E i \in BucketVBuckets, size \in 1..MaxHtSize :
          VBucket_VBucket(i, size)
    \/ \E i \in BucketVBuckets, newSize \in 1..MaxHtSize :
          HashTable_resize(i, newSize)
    \/ \E i \in BucketVBuckets : VBucket_destroy(i)

SpecMemory == MemoryInit /\ [][MemoryNext]_vars

\* SpecManifest: bucket manifests are applied to the active manifest and
\* deletions are completed on it, in any order, each call followed by the
\* replay of its system events on the replica.
ManifestInit ==
    /\ WaiterInit(vbucket_state_active)
    /\ QueueIdle
    /\ StatsIdle
    /\ CommandIdle
    /\ PrinterIdle
    /\ MemIdle
    /\ ManifestIdle

ManifestNext ==
    \/ \E json \in BucketManifests :
          \E order \in Orders(deletions(active, json)) :
             Harness_update(json, order)
    \/ \E name \in CollectionNames \cup {"unknown"}, uid \in 0..2 :
          Harness_completeDeletion(Identifier(name, uid))

SpecManifest == ManifestInit /\ [][ManifestNext]_vars

\* SpecFire: ops are parked on a Pending vBucket, the state changes, and two
\* threads run fireAllOps step by step, the pending-op mutex being free
\* during each notification.
FireInit ==
    /\ WaiterInit(vbucket_state_pending)
    /\ ExtIdle
    /\ StatsIdle
    /\ eviction = VALUE_ONLY
    /\ ht = EmptyMap
    /\ ckpt = EmptyMap
    /\ seqnoLog = {}
    /\ threads = [t \in Threads |-> FireIdle]

FireNext ==
    \/ /\ LastOp < MaxOps
       /\ addPendingOp(LastOp + 1)
    \/ \E to \in VBStates : setState(to)
    \/ \E t \in Threads : fireAllOps_enter(t)
    \/ \E t \in Threads : fireAllOps_notify(t)
    \/ \E t \in Threads : fireAllOps_relock(t)

SpecFire == FireInit /\ [][FireNext]_vars

\* SpecPager: documents with and without a TTL are stored in an Active
\* vBucket, flushed, read and swept by the expiry pager while the clock
\* advances.
PagerInit ==
    /\ WaiterInit(vbucket_state_active)
    /\ ExtIdle
    /\ StatsIdle
    /\ eviction = VALUE_ONLY
    /\ ht = EmptyMap
    /\ seqnoLog = {}
    /\ threads = [t \in Threads |-> Idle]
    /\ ckpt = [lastBySeqno |-> 0, maxCas |-> 0, items |-> <<>>,
               keyIndex |-> EmptyMap,
               cursors |-> [c \in Cursors |-> 0],
               history |-> <<>>, constructedWith |-> 0,
               queuedSinceAdvance |-> [k \in Keys |-> 0]]

PagerNext ==
    \/ \E key \in PagerKeys, exptime \in ExpiryTimes :
          Pager_storeItem(key, exptime)
    \/ Pager_flushVBucket
    \/ \E order \in Orders(ExpiredItems(ht, ep_real_time)) :
          runExpiryPager(order)
    \/ \E key \in PagerKeys : Pager_get(key)
    \/ Tick

SpecPager == PagerInit /\ [][PagerNext]_vars

\* ------------------------------------------------------------------ claims
\* The entries of a waiter list that have the wait type `isBySeqno`.
OfType(list, isBySeqno) ==
    SelectSeq(list, LAMBDA e : e.isBySeqno = isBySeqno)

\* How often `cookie` occurs in a sequence of cookies.
Occurrences(cookies, cookie) ==
    Cardinality({i \in 1..Len(cookies) : cookies[i] = cookie})

\* C1: after notifyOnPersistence(S, BySeqno) every waiter that was registered
\* with isBySeqno = true and a target id <= S is out of the waiter list and
\* its cookie has received exactly one notifyIOComplete, carrying Success,
\* whatever the list held (one cookie may be registered more than once).
C1_ReachedWaitersGetSuccess ==
    (lastCall.op = "notifyOnPersistence" /\ lastCall.flag) =>
        \A i \in 1..Len(pre.hpChks) :
            LET e == pre.hpChks[i]
            IN (e.isBySeqno /\ e.id <= lastCall.id) =>
                  /\ \A j \in 1..Len(hpChks) : hpChks[j] # e
                  /\ Count(notified, e.cookie) = 1
                  /\ CountWith(notified, e.cookie, ENGINE_SUCCESS) = 1

\* The cookies of the entries a notifyOnPersistence walk erased.
ErasedCookies == {walkLog[i].entry.cookie : i \in {j \in 1..Len(walkLog) : walkLog[j].erased}}

\* C2: in notifyOnPersistence(idNum, type) a waiter of that type whose target
\* is greater than idNum is removed and notified with TempFail if and only if
\* its age in whole seconds exceeds the timeout current when it is examined;
\* otherwise it stays and gets no notification.  Waiters of the other type
\* are neither removed nor notified.  (A notification sent for another,
\* removed waiter of the same cookie is not counted against a waiter that
\* stays.)
C2_UnreachedWaitersTimeOut ==
    lastCall.op = "notifyOnPersistence" =>
        /\ \A i \in 1..Len(walkLog) :
              LET w == walkLog[i]
              IN w.entry.id > lastCall.id =>
                    IF w.spent > w.timeout
                    THEN /\ w.erased
                         /\ CountWith(notified, w.entry.cookie,
                                      ENGINE_TMPFAIL) >= 1
                    ELSE /\ ~w.erased
                         /\ w.entry.cookie \notin ErasedCookies =>
                               Count(notified, w.entry.cookie) = 0
        /\ OfType(hpChks, ~lastCall.flag) = OfType(pre.hpChks, ~lastCall.flag)
        /\ \A i \in 1..Len(pre.hpChks) :
              (/\ pre.hpChks[i].isBySeqno # lastCall.flag
               /\ pre.hpChks[i].cookie \notin ErasedCookies) =>
                  Count(notified, pre.hpChks[i].cookie) = 0

WaiterCookies(list) == {list[i].cookie : i \in 1..Len(list)}
\* The cookies of the fetches of a pending-fetch map.
FetchCookies(fetches) ==
    LET cs == BgCookies(fetches, DOMAIN fetches)
    IN {cs[i] : i \in 1..Len(cs)}

\* C5: after notifyAllPendingConnsFailed the waiter list and the pending-fetch
\* map are empty and every cookie that was in either container, or was a
\* pending op of a vBucket not in Pending state, has been notified exactly
\* once: the waiters with TempFail, the fetch waiters with NotMyVBucket.
C5_SweepNotifiesEveryCookieOnce ==
    lastCall.op = "notifyAllPendingConnsFailed" =>
        /\ hpChks = <<>>
        /\ pendingBGFetches = EmptyMap
        /\ \A c \in WaiterCookies(pre.hpChks) :
              /\ Count(notified, c) = 1
              /\ CountWith(notified, c, ENGINE_TMPFAIL) = 1
        /\ \A c \in FetchCookies(pre.pendingBGFetches) :
              /\ Count(notified, c) = 1
              /\ CountWith(notified, c, ENGINE_NOT_MY_VBUCKET) = 1
        /\ pre.state # vbucket_state_pending =>
              \A i \in 1..Len(pre.pendingOps) :
                  Count(notified, pre.pendingOps[i]) = 1

\* The band adjustCheckpointFlushTimeout is documented to select for a
\* latency: min, the middle of the interval, or max.
BandOf(wall_time) ==
    IF wall_time <= MIN_CHK_FLUSH_TIMEOUT THEN MIN_CHK_FLUSH_TIMEOUT
    ELSE IF 2 * wall_time <= MIN_CHK_FLUSH_TIMEOUT + MAX_CHK_FLUSH_TIMEOUT
    THEN (MIN_CHK_FLUSH_TIMEOUT + MAX_CHK_FLUSH_TIMEOUT) \div 2
    ELSE MAX_CHK_FLUSH_TIMEOUT

LastCommitOf(key) ==
    CHOOSE i \in 1..Len(ckpt.history) :
        /\ ckpt.history[i].key = key
        /\ \A j \in i + 1..Len(ckpt.history) : ckpt.history[j].key # key

\* C7: the bySeqno values VBucket::queueDirty assigns are strictly increasing
\* in commit order and all greater than the lastSeqno the vBucket was
\* constructed with, under every interleaving of the callers; each call
\* returns the bySeqno of its commit and has stamped it on the stored value.
C7_SeqnosStrictlyIncrease ==
    /\ \A i \in 1..Len(ckpt.history) :
          /\ ckpt.history[i].bySeqno > ckpt.constructedWith
          /\ i > 1 => ckpt.history[i].bySeqno > ckpt.history[i - 1].bySeqno
    /\ \A r \in seqnoLog :
          /\ r.returned = ckpt.history[r.commit].bySeqno
          /\ r.stamped = r.returned
    /\ \A r1, r2 \in seqnoLog :
          r1.commit < r2.commit => r1.stamped < r2.stamped

\* C7 witness: on a vBucket constructed with lastSeqno 1, two calls for
\* different keys have committed and returned.
C7_Witness ==
    /\ ckpt.constructedWith = 1
    /\ Len(ckpt.history) >= 2
    /\ \E r1, r2 \in seqnoLog : r1.commit < r2.commit /\ r1.key # r2.key

C9_DecrementsSaturateAtZero ==
    /\ \A c \in DOMAIN ghost.added : counters[c] <= ghost.added[c]
    /\ ghost.lastDecr.counter # "none" =>
          /\ ghost.lastDecr.oldVal < ghost.lastDecr.decrementBy
          /\ ghost.lastDecr.newVal = 0

\* C9 witness: a decrement larger than the non-zero value it found has been
\* committed while the other thread holds a stale load of the same counter.
C9_Witness ==
    /\ ghost.lastDecr.counter # "none"
    /\ ghost.lastDecr.oldVal > 0
    /\ \E t \in Threads :
          /\ threads[t].pc = "cas"
          /\ CasCounters[threads[t].stage] = ghost.lastDecr.counter
          /\ threads[t].oldVal # counters[ghost.lastDecr.counter]

\* C10: after any sequence of incrMetaDataDisk / decrMetaDataDisk calls the
\* metadata-disk counter is not a wrapped-around value: it never exceeds the
\* bytes that were counted onto the disk.
C10_MetaDataDiskNeverUnderflows ==
    metaDataDisk <= ghost.metaAdded

\* The filter operation that ran last.
LastFilterCall ==
    IF filterLog = <<>> THEN [op |-> "none"] ELSE filterLog[Len(filterLog)]

\* A temp filter swapFilter accepts.
Swappable(temp) ==
    temp # NULL /\ temp.status \in {BFILTER_COMPACTING, BFILTER_ENABLED}

\* C11: swapFilter replaces the main filter with the temp filter if and only
\* if a temp filter exists with status Compacting or Enabled, and then the new
\* main filter (the temp filter's contents) has status Enabled; a temp filter
\* with any other status is discarded together with the main filter; with no
\* temp filter the main filter stays; no temp filter exists afterwards.
C11_SwapFilterReplacesMain ==
    LastFilterCall.op = "swapFilter" =>
        /\ tempFilter = NULL
        /\ Swappable(filterPre.tempFilter) =>
              bFilter = [status |-> BFILTER_ENABLED,
                         bits |-> filterPre.tempFilter.bits]
        /\ (filterPre.tempFilter # NULL /\ ~Swappable(filterPre.tempFilter))
              => bFilter = NULL
        /\ filterPre.tempFilter = NULL => bFilter = filterPre.bFilter

\* C11 witness: swapFilter found a main filter and a temp filter that had
\* been disabled during the compaction.
C11_Witness ==
    /\ LastFilterCall.op = "swapFilter"
    /\ filterPre.bFilter # NULL
    /\ filterPre.tempFilter # NULL
    /\ filterPre.tempFilter.status = BFILTER_DISABLED

\* createFilter; addToFilter(k1); initTempFilter; addToFilter(k2); swapFilter
SwapScenario(k1, k2) ==
    filterLog = <<[op |-> "createFilter"],
                  [op |-> "addToFilter", key |-> k1],
                  [op |-> "initTempFilter"],
                  [op |-> "addToFilter", key |-> k2],
                  [op |-> "swapFilter"]>>

\* C12 (as claimed): after addToFilter(k1); initTempFilter; addToFilter(k2);
\* swapFilter on a vBucket with a main filter, maybeKeyExistsInFilter is true
\* for k2 and for k1.
C12_BothKeysSurviveSwap ==
    \A k1, k2 \in Keys :
        SwapScenario(k1, k2) =>
            /\ maybeKeyExistsInFilter(k2)
            /\ maybeKeyExistsInFilter(k1)

\* C12 (amended): after that sequence the main filter is the temp filter,
\* Enabled, holding exactly what was added since initTempFilter: k2 may
\* exist; k1, added before the temp filter existed, may exist only if all
\* its bits are bits of k2.
C12_OnlyMirroredKeysSurviveSwap ==
    \A k1, k2 \in Keys :
        SwapScenario(k1, k2) =>
            /\ maybeKeyExistsInFilter(k2)
            /\ bFilter = [status |-> BFILTER_ENABLED, bits |-> BitsOf(k2)]
            /\ maybeKeyExistsInFilter(k1) <=> BitsOf(k1) \subseteq BitsOf(k2)

\* C12 witness: the sequence ran with k1 = a, k2 = b.
C12_Witness ==
    /\ SwapScenario("a", "b")
    /\ bFilter # NULL

\* C13: while a temp filter exists addToFilter(key) adds the key to the temp
\* filter and to the main filter (if there is one); addToTempFilter(key) adds
\* it to the temp filter and leaves the main filter as it was; initTempFilter
\* leaves a temp filter with status Compacting and sets the main filter, if
\* present, to Compacting without touching its contents.
C13_MirroredAndTempOnlyWrites ==
    LET call == LastFilterCall
        main == filterPre.bFilter
        temp == filterPre.tempFilter
    IN /\ (call.op = "addToFilter" /\ temp # NULL) =>
             /\ tempFilter = [status |-> temp.status,
                              bits |-> temp.bits \cup BitsOf(call.key)]
             /\ main # NULL =>
                   bFilter = [status |-> main.status,
                              bits |-> main.bits \cup BitsOf(call.key)]
             /\ main = NULL => bFilter = NULL
       /\ (call.op = "addToTempFilter" /\ temp # NULL) =>
             /\ tempFilter = [status |-> temp.status,
                              bits |-> temp.bits \cup BitsOf(call.key)]
             /\ bFilter = main
       /\ call.op = "initTempFilter" =>
             /\ tempFilter.status = BFILTER_COMPACTING
             /\ main # NULL =>
                   bFilter = [status |-> BFILTER_COMPACTING,
                              bits |-> main.bits]
             /\ main = NULL => bFilter = NULL

\* C13 witness: during a compaction addToTempFilter added a key the main
\* filter does not hold.
C13_Witness ==
    /\ LastFilterCall.op = "addToTempFilter"
    /\ bFilter # NULL
    /\ bFilter.status = BFILTER_COMPACTING
    /\ tempFilter # NULL
    /\ maybeKeyExists(tempFilter, LastFilterCall.key)
    /\ ~maybeKeyExists(bFilter, LastFilterCall.key)

\* The fetches parked for `key` in a pending-fetch map.
ParkedFor(fetches, key) ==
    IF key \in DOMAIN fetches THEN fetches[key].bgfetched_list ELSE <<>>

\* C17: queueBGFetchItem(key, fetch) leaves one map entry for the key whose
\* waiter list is the list parked before (since the last getBGFetchItems)
\* with the new fetch appended once, leaves the other keys' entries alone,
\* and returns the number of distinct keys with a fetch pending.
C17_FetchesCoalescePerKey ==
    lastCall.op = "queueBGFetchItem" =>
        LET fetch == [cookie |-> lastCall.cookie,
                      metaDataOnly |-> lastCall.metaDataOnly]
        IN /\ DOMAIN pendingBGFetches
                 = DOMAIN pre.pendingBGFetches \cup {lastCall.key}
           /\ ParkedFor(pendingBGFetches, lastCall.key)
                 = Append(ParkedFor(pre.pendingBGFetches, lastCall.key),
                          fetch)
           /\ \A k \in DOMAIN pre.pendingBGFetches \ {lastCall.key} :
                 pendingBGFetches[k] = pre.pendingBGFetches[k]
           /\ lastCall.ret
                 = Cardinality({k \in Keys :
                                  ParkedFor(pendingBGFetches, k) # <<>>})

\* C17 witness: a second reader's fetch joined the one pending for the key
\* while another key had a fetch pending too.
C17_Witness ==
    /\ lastCall.op = "queueBGFetchItem"
    /\ Len(ParkedFor(pendingBGFetches, lastCall.key)) = 2
    /\ lastCall.ret = 2

\* C15: notifyIOComplete is never invoked by a thread that holds the
\* pending-op mutex, the high-priority-waiter mutex or the BG-fetch mutex:
\* each handler releases the mutex it collected the cookies under before it
\* notifies them.
C15_NotifyOutsideLeafMutexes ==
    \A mutex \in LeafMutexes :
        <<notifyIOComplete, mutex>> \notin locks.callbacks

\* The failure sweep notified a waiter and fired a parked op.
C15_Witness ==
    /\ lastCall.op = "notifyAllPendingConnsFailed"
    /\ pre.hpChks # <<>>
    /\ pre.pendingOps # <<>>
    /\ Len(notified) >= 2
    /\ locks.callbacks = {}

\* C16: no thread holds two of the leaf mutexes (pending-op, high-priority
\* waiter, BG-fetch) at once: none of them is acquired while another one is
\* held.
C16_LeafMutexesNeverNest ==
    \A held \in LeafMutexes, taken \in LeafMutexes :
        <<held, taken>> \notin locks.order

\* The failure sweep went through its waiter scope and its fetch scope with
\* something to collect in each.
C16_Witness ==
    /\ lastCall.op = "notifyAllPendingConnsFailed"
    /\ pre.hpChks # <<>>
    /\ pre.pendingBGFetches # EmptyMap
    /\ locks.order = {}

\* The rank the documented order gives a mutex: state lock, CheckpointManager
\* mutex, hash-bucket mutex, bloom-filter mutex, leaf mutexes.
DocumentedRank(mutex) ==
    IF mutex = stateLock THEN 1
    ELSE IF mutex = checkpointManager THEN 2
    ELSE IF mutex = hashBucket THEN 3
    ELSE IF mutex = bfMutex THEN 4
    ELSE 5

\* The same with the hash-bucket mutex before the CheckpointManager mutex.
BucketFirstRank(mutex) ==
    IF mutex = stateLock THEN 1
    ELSE IF mutex = hashBucket THEN 2
    ELSE IF mutex = checkpointManager THEN 3
    ELSE IF mutex = bfMutex THEN 4
    ELSE 5

\* C14 as stated: locks are acquired only in the order state lock,
\* CheckpointManager mutex, hash-bucket mutex, bloom-filter mutex, leaf
\* mutexes; no thread acquires the CheckpointManager mutex while it holds a
\* hash-bucket mutex.
C14_ManagerBeforeBucket ==
    \A pair \in locks.order :
        DocumentedRank(pair[1]) < DocumentedRank(pair[2])

\* C14, amended: locks are acquired only in the order state lock,
\* hash-bucket mutex, CheckpointManager mutex, bloom-filter mutex, leaf
\* mutexes: queueDirty takes the CheckpointManager mutex while the thread
\* holds the key's hash-bucket mutex, and nothing takes a hash-bucket mutex
\* or the state lock while holding the CheckpointManager mutex.
C14_BucketBeforeManager ==
    \A pair \in locks.order :
        BucketFirstRank(pair[1]) < BucketFirstRank(pair[2])

\* completeBGFetchForSingleItem found the item expired and queued the
\* expiration: state lock, then bucket lock, then the manager's mutex.
C14_Witness ==
    {<<stateLock, hashBucket>>, <<stateLock, checkpointManager>>,
     <<hashBucket, checkpointManager>>} \subseteq locks.order

\* How often the fetcher notified the cookie for the key.
FiredFor(fetcher, key, cookie) ==
    Cardinality({i \in 1..Len(fetcher.fired) :
                    /\ fetcher.fired[i].key = key
                    /\ fetcher.fired[i].cookie = cookie})

\* How often the cookie waits in the key's list of the fetches taken.
WaitingFor(fetcher, key, cookie) ==
    LET list == fetcher.taken[key].bgfetched_list
    IN Cardinality({i \in 1..Len(list) : list[i].cookie = cookie})

\* The fetcher went through every fetch it took.
BatchDone(fetcher) ==
    /\ fetcher.pc = "completing"
    /\ Len(fetcher.fired) = Len(fetcher.batch)

\* C18: when the fetches coalesced on a key are completed through
\* completeBGFetchForSingleItem, every waiter on the key gets exactly one
\* notifyIOComplete, with ENGINE_SUCCESS when the fetch succeeded.
C18_EachWaiterNotifiedOnce ==
    \A t \in BgFetchers :
        threads[t].pc # "idle" =>
            LET fetcher == threads[t]
            IN /\ \A i \in 1..Len(fetcher.fired) :
                     fetcher.batch[i].status = ENGINE_SUCCESS
                        => fetcher.fired[i].status = ENGINE_SUCCESS
               /\ \A key \in DOMAIN fetcher.taken, cookie \in Cookies :
                     /\ FiredFor(fetcher, key, cookie)
                           <= WaitingFor(fetcher, key, cookie)
                     /\ BatchDone(fetcher) =>
                           FiredFor(fetcher, key, cookie)
                              = WaitingFor(fetcher, key, cookie)

\* Two cookies waited for one key, the fetch succeeded, both were notified.
C18_Witness ==
    \E t \in BgFetchers :
        /\ threads[t].pc # "idle"
        /\ BatchDone(threads[t])
        /\ \E key \in DOMAIN threads[t].taken :
              /\ \A cookie \in Cookies :
                    WaitingFor(threads[t], key, cookie) = 1
              /\ \A i \in 1..Len(threads[t].batch) :
                    threads[t].batch[i].status = ENGINE_SUCCESS
              /\ \A cookie \in Cookies :
                    FiredFor(threads[t], key, cookie) = 1

\* The threads back from fetchValidValue (the bucket still locked) that
\* found a live item whose expiry had passed.
ExpiredLookups ==
    {t \in Threads :
        /\ threads[t].pc = "fetched"
        /\ threads[t].before # <<>>
        /\ ~threads[t].before[1].deleted
        /\ ~isTempItem(threads[t].before[1])
        /\ isExpired(threads[t].before[1], threads[t].asof)}

\* The lookup soft-deleted the item and queued the expiration once.
ExpiredAndQueued(t) ==
    /\ ht[threads[t].key].deleted
    /\ QueuedFor(threads[t].key) = threads[t].queuedBefore + 1

\* The lookup left the item and the queue as they were.
LeftAlone(t) ==
    /\ ht[threads[t].key] = threads[t].before[1]
    /\ QueuedFor(threads[t].key) = threads[t].queuedBefore

\* C19 as stated: for a live item whose expiry has passed fetchValidValue
\* never returns the item; on an Active vBucket it soft-deletes the item and
\* queues the expiration exactly once; on a non-Active vBucket it neither
\* modifies the item nor queues anything.
C19_ExpiredNeverReturned ==
    \A t \in ExpiredLookups :
        /\ ~threads[t].v
        /\ IF state = vbucket_state_active
           THEN ExpiredAndQueued(t) ELSE LeftAlone(t)

\* C19, amended: for a live item whose expiry has passed fetchValidValue
\* returns the item exactly when the caller asked for deleted items
\* (wantsDeleted); on an Active vBucket, when the caller asked for it
\* (queueExpired), it soft-deletes the item and queues the expiration exactly
\* once; otherwise it neither modifies the item nor queues anything.
C19_ExpiredReturnedOnlyIfWanted ==
    \A t \in ExpiredLookups :
        /\ threads[t].v = threads[t].wantsDeleted
        /\ IF state = vbucket_state_active /\ threads[t].queueExpired
           THEN ExpiredAndQueued(t) ELSE LeftAlone(t)

\* A plain lookup on an Active vBucket expired the item, and a lookup on a
\* replica did not.
C19_Witness ==
    \E t \in ExpiredLookups :
        /\ ~threads[t].wantsDeleted
        /\ threads[t].queueExpired
        /\ ~threads[t].v
        /\ \/ state = vbucket_state_active /\ ExpiredAndQueued(t)
           \/ state = vbucket_state_replica /\ LeftAlone(t)

\* C20: VBucket::queueDirty invokes newSeqnoCb only while the calling thread
\* holds no hash-bucket mutex, on every path that queues a dirty item (a
\* stored mutation and the expiry on access through fetchValidValue).
C20_CallbackAfterUnlock ==
    <<newSeqnoCb, hashBucket>> \notin locks.callbacks

\* C21: after any setState(Active) the open checkpoint id is at least 2; a
\* setState to any other state changes only the state and leaves the open
\* checkpoint id (and everything parked on the vBucket) as it was.
C21_ActiveOpensCheckpointTwo ==
    lastCall.op = "setState" =>
        /\ state = lastCall.to
        /\ lastCall.to = vbucket_state_active => openCheckpointId >= 2
        /\ lastCall.to # vbucket_state_active =>
              /\ openCheckpointId = pre.openCheckpointId
              /\ hpChks = pre.hpChks
              /\ pendingOps = pre.pendingOps
              /\ pendingBGFetches = pre.pendingBGFetches
              /\ chkFlushTimeout = pre.chkFlushTimeout
              /\ notified = <<>>

\* A vBucket whose open checkpoint was number 0 or 1 became Active, and one
\* left the Active state with a waiter parked.
C21_Witness ==
    /\ lastCall.op = "setState"
    /\ \/ /\ lastCall.to = vbucket_state_active
          /\ pre.openCheckpointId < 2
          /\ openCheckpointId = 2
       \/ /\ lastCall.to # vbucket_state_active
          /\ pre.state = vbucket_state_active
          /\ pre.hpChks # <<>>
          /\ pre.openCheckpointId = 0

\* The order of the states of a command context.
Rank(st) ==
    CASE st \in {"GetItem", "ValidateInput"} -> 0
      [] st \in {"InflateItem", "NoSuchItem", "AllocateNewItem"} -> 1
      [] st = "StoreItem" -> 2
      [] st = "SendResponse" -> 3
      [] st = "Done" -> 4

\* The handlers step() ran for the command: one that returned Success left
\* a strictly later state and was followed, in the same call, by the handler
\* of that state; one that returned anything else ended the call, and one
\* that returned WouldBlock left the state as it was; the next call started
\* with the handler of the state the last one left; in Done step() returned
\* Success.
ForwardOnly ==
    /\ \A i \in 1..Len(cmdLog) :
          LET e == cmdLog[i]
              goesOn == e.ret = ENGINE_SUCCESS /\ e.from # "Done"
          IN  /\ e.from = "Done" => e.ret = ENGINE_SUCCESS /\ e.to = "Done"
              /\ goesOn => Rank(e.to) > Rank(e.from)
              /\ e.ret = ENGINE_EWOULDBLOCK => e.to = e.from
              /\ i < Len(cmdLog) =>
                    /\ cmdLog[i + 1].from = e.to
                    /\ cmdLog[i + 1].call = e.call <=> goesOn
              /\ i = Len(cmdLog) /\ goesOn => cmd.running
    /\ cmd.kind # "none" /\ ~cmd.running /\ cmdLog # <<>> =>
          cmd.ret = cmdLog[Len(cmdLog)].ret

\* C22: the command steppers are forward-only cooperative state machines:
\* step() keeps running handlers while they return Success, each successful
\* handler moves to a strictly later state, a handler that returns
\* WouldBlock leaves the state unchanged so that the next step() re-runs it,
\* in Done step() returns Success, and every call of step() returns.
C22_SteppersMoveForward ==
    /\ []ForwardOnly
    /\ cmd.running ~> ~cmd.running

\* A store had to wait in StoreItem, the next call of step() ran that
\* handler again and carried the command on to Done.
C22_Witness ==
    /\ cmd.kind = "mutation"
    /\ ~cmd.running
    /\ cmd.state = "Done"
    /\ cmd.ret = ENGINE_SUCCESS
    /\ \E i \in 1..Len(cmdLog) - 1 :
          /\ cmdLog[i].ret = ENGINE_EWOULDBLOCK
          /\ cmdLog[i].from = "StoreItem"
          /\ cmdLog[i + 1].from = "StoreItem"
          /\ cmdLog[i + 1].ret = ENGINE_SUCCESS
    /\ cmdLog[Len(cmdLog)].from = "Done"

\* The runs of StoreItem the engine served on an Active vBucket.
StoreRuns ==
    {i \in 1..Len(cmdLog) :
        /\ cmd.kind = "mutation"
        /\ cmdLog[i].from = "StoreItem"
        /\ cmdLog[i].vb = vbucket_state_active}

\* The table as the i-th handler left it.
TableAfter(i) == IF i < Len(cmdLog) THEN cmdLog[i + 1].table ELSE ht

\* The i-th handler ended the call of step() with `ret`, in StoreItem, and
\* no success response was sent.
FailedInStoreItem(i, ret) ==
    /\ cmdLog[i].ret = ret
    /\ cmdLog[i].to = "StoreItem"
    /\ i = Len(cmdLog) =>
          /\ cmd.state = "StoreItem"
          /\ conn.responses = <<>>
          /\ cmd.calls = cmdLog[i].call => ~cmd.running /\ cmd.ret = ret

\* C23: an add of a key that has a live value fails with KeyExists and
\* leaves the stored value unchanged; the mutation stepper reports the
\* engine's NOT_STORED as KeyExists for add and as KeyNotFound for replace,
\* stays in StoreItem and sends no success response.
C23_AddOfLiveKeyFails ==
    \A i \in StoreRuns :
        LET before == cmdLog[i].table
            answer == StoreStatus(before, cmd.key, cmd.input_cas,
                                  cmd.operation)
        IN  /\ cmd.operation = OPERATION_ADD /\ IsLive(before, cmd.key) =>
                  /\ FailedInStoreItem(i, ENGINE_KEY_EEXISTS)
                  /\ IsLive(TableAfter(i), cmd.key)
                  /\ TableAfter(i)[cmd.key].value = before[cmd.key].value
            /\ answer = ENGINE_NOT_STORED =>
                  /\ cmd.operation = OPERATION_ADD =>
                        FailedInStoreItem(i, ENGINE_KEY_EEXISTS)
                  /\ cmd.operation = OPERATION_REPLACE =>
                        FailedInStoreItem(i, ENGINE_KEY_ENOENT)
                  /\ IsLive(TableAfter(i), cmd.key) = IsLive(before, cmd.key)

\* An add of another value for a live key ended with KeyExists and the value
\* is the old one; a replace of a missing key ended with KeyNotFound.
C23_Witness ==
    /\ cmdLog # <<>>
    /\ Len(cmdLog) \in StoreRuns
    /\ ~cmd.running
    /\ LET before == cmdLog[Len(cmdLog)].table
       IN \/ /\ cmd.operation = OPERATION_ADD
             /\ IsLive(before, cmd.key)
             /\ cmd.value # before[cmd.key].value
             /\ cmd.ret = ENGINE_KEY_EEXISTS
             /\ ht[cmd.key].value = before[cmd.key].value
          \/ /\ cmd.operation = OPERATION_REPLACE
             /\ ~IsLive(before, cmd.key)
             /\ cmd.ret = ENGINE_KEY_ENOENT

\* The entries a reader finds between the braces, in order: a number is the
\* entry [lo, hi] with lo = hi, and "[" lo "," hi "]" is the entry [lo, hi].
RECURSIVE Entries(_, _)
Entries(out, i) ==
    IF i > Len(out) \/ out[i] = Lit(" }") THEN <<>>
    ELSE IF out[i].t = "num"
    THEN <<[lo |-> out[i].n, hi |-> out[i].n, text |-> "id"]>>
         \o Entries(out, i + 1)
    ELSE IF out[i].s = "["
    THEN <<[lo |-> out[i + 1].n, hi |-> out[i + 3].n, text |-> "range"]>>
         \o Entries(out, i + 5)
    ELSE Entries(out, i + 1)

\* The ids lo..hi are all in S and the run cannot be extended in S.
MaximalRun(S, lo, hi) ==
    /\ lo <= hi
    /\ lo..hi \subseteq S
    /\ lo - 1 \notin S
    /\ hi + 1 \notin S

\* The maximal run of S that id is in has three ids or more.
InLongRun(S, id) ==
    \E lo \in S, hi \in S :
        /\ MaximalRun(S, lo, hi)
        /\ id \in lo..hi
        /\ hi - lo >= 2

\* C24: printing a VBucketFilter writes "{ empty }" for the empty set and
\* otherwise lists the ids in ascending order: every maximal run of three or
\* more consecutive ids once as [lo,hi], the ids of runs of one or two
\* individually, every id of the set exactly once.
C24_RunsOfThreeCollapse ==
    printed # NotPrinted =>
        LET S == printed.of
            out == printed.out
            es == Entries(out, 2)
        IN  /\ S = {} => out = <<Lit("{ empty }")>>
            /\ S # {} =>
                  /\ out[1] = Lit("{ ")
                  /\ out[Len(out)] = Lit(" }")
                  /\ UNION {es[i].lo..es[i].hi : i \in 1..Len(es)} = S
                  /\ \A i \in 1..Len(es) - 1 : es[i].hi < es[i + 1].lo
                  /\ \A i \in 1..Len(es) :
                        IF es[i].text = "range"
                        THEN /\ MaximalRun(S, es[i].lo, es[i].hi)
                             /\ es[i].hi - es[i].lo >= 2
                        ELSE ~InLongRun(S, es[i].lo)
                  /\ \A i \in 2..Len(out) - 2 :
                        out[i].t = "num" => out[i + 1].t = "lit"

\* A filter with a run of three and a run of two was written.
C24_Witness ==
    /\ printed.of = {0, 1, 2, 4, 5}
    /\ printed.out =
          <<Lit("{ "), Lit("["), Num(0), Lit(","), Num(2), Lit("]"),
            Lit(", "), Num(4), Lit(", "), Num(5), Lit(" }")>>

\* What the vBuckets alive account for.
RECURSIVE Accounted(_)
Accounted(ids) ==
    IF ids = {} THEN 0
    ELSE LET i == CHOOSE j \in ids : TRUE
         IN  Overhead(vbMap[i]) + Accounted(ids \ {i})

Deleting(m) == {n \in DOMAIN m.map : Entry_isDeleting(m.map[n])}

ListedNames(json) == {i.name : i \in Listed(json)}
\* The keys that name collection `n` when cut at the manifest's separator.
KeysOf(m, n) == {key \in DocKeys : collectionOf(m, key) = n}
\* The last call was an update the active manifest carried out.
Updated == manifestCall.op = "update" /\ ~manifestCall.thrown

ItemSeqnos == 0..vbA.highSeqno + 1

OpenIdentifiers(m) ==
    {Identifier(n, m.map[n].uid) :
        n \in {o \in DOMAIN m.map : Entry_isOpen(m.map[o])}}

PagerRan == lastCall.op = "runExpiryPager"

Completed == {t \in BgFetchers : threads[t].pc = "completed"}

\* C33: the status completeBGFetchForSingleItem returns. A full-value fetch
\* of a resident item succeeds and leaves the item alone; one that needs a
\* restore succeeds and makes the item resident when the storage succeeded,
\* marks the item non-existent when the storage missed (KEY_ENOENT under
\* VALUE_ONLY, SUCCESS under FULL_EVICTION), and gives TMPFAIL for any other
\* storage status. A meta-only fetch succeeds when the metadata was restored
\* or the storage missed, the item being in the hash table or not.
C33_StatusOfCompletedFetch ==
    \A t \in Completed :
        LET fetched == NextFetched(t)
            found == threads[t].v
            before == threads[t].sv
            after == threads[t].after
            status == threads[t].status
        IN IF fetched.metaDataOnly
           THEN (\/ found /\ unlocked_restoreMeta(before, fetched.status).ok
                 \/ fetched.status = ENGINE_KEY_ENOENT)
                   => status = ENGINE_SUCCESS
           ELSE /\ found /\ before.resident
                   => status = ENGINE_SUCCESS /\ after = before
                /\ found /\ ~before.resident =>
                      IF fetched.status = ENGINE_SUCCESS
                      THEN /\ status = ENGINE_SUCCESS
                           /\ after.resident /\ after.temp = "no"
                      ELSE IF fetched.status = ENGINE_KEY_ENOENT
                      THEN /\ status = IF eviction = FULL_EVICTION
                                       THEN ENGINE_SUCCESS
                                       ELSE ENGINE_KEY_ENOENT
                           /\ after.temp = "nonexistent"
                      ELSE status = ENGINE_TMPFAIL

\* A full-value fetch whose restore met a storage error that is neither a
\* miss nor a temporary failure.
C33_Witness ==
    \E t \in Completed :
        /\ ~NextFetched(t).metaDataOnly
        /\ threads[t].v /\ ~threads[t].sv.resident
        /\ NextFetched(t).status = ENGINE_ENOMEM
        /\ threads[t].status = ENGINE_TMPFAIL

\* The notifications that resolve the ops of `ops` with `code`, the newest
\* op first.
Resolved(ops, code) ==
    [i \in 1..Len(ops) |->
        [cookie |-> ops[Len(ops) + 1 - i], status |-> code]]

\* C34: fireAllOps(engine) resolves the pending ops by the current state:
\* Active notifies every pending op with Success, Replica and Dead with
\* NotMyVBucket, and Pending notifies no op and leaves the list unchanged.
C34_FireAllOpsByState ==
    lastCall.op = "fireAllOps" =>
        IF state = vbucket_state_pending
        THEN /\ notified = <<>>
             /\ pendingOps = pre.pendingOps
        ELSE /\ pendingOps = <<>>
             /\ notified =
                   Resolved(pre.pendingOps,
                            IF state = vbucket_state_active
                            THEN ENGINE_SUCCESS ELSE ENGINE_NOT_MY_VBUCKET)

\* fireAllOps ran on an Active vBucket with two ops parked and resolved both
\* with Success.
C34_Witness ==
    /\ lastCall.op = "fireAllOps"
    /\ Len(pre.pendingOps) = 2
    /\ state = vbucket_state_active
    /\ \A i \in 1..2 : notified[i].status = ENGINE_SUCCESS

\* Every key is answered "may exist".
FailsOpen == \A key \in Keys : maybeKeyExistsInFilter(key)

\* C35: the bloom filter fails open. Whenever there is no main filter, be it
\* that none was created, that clearFilter ran, or that swapFilter discarded
\* the filters after they were disabled during the compaction,
\* maybeKeyExistsInFilter is true for every key; a key is answered "not on
\* disk" only by a main filter lacking one of the key's bits. createFilter
\* makes an Enabled main filter only when neither filter exists and changes
\* nothing otherwise.
C35_FilterFailsOpen ==
    LET call == LastFilterCall
        main == filterPre.bFilter
        temp == filterPre.tempFilter
    IN /\ bFilter = NULL => FailsOpen
       /\ filterLog = <<>> => bFilter = NULL /\ FailsOpen
       /\ call.op = "clearFilter" => bFilter = NULL /\ FailsOpen
       /\ (call.op = "swapFilter" /\ temp # NULL
              /\ temp.status = BFILTER_DISABLED)
             => bFilter = NULL /\ FailsOpen
       /\ \A key \in Keys :
             ~maybeKeyExistsInFilter(key) =>
                /\ bFilter # NULL
                /\ ~(BitsOf(key) \subseteq bFilter.bits)
       /\ call.op = "createFilter" =>
             IF main = NULL /\ temp = NULL
             THEN /\ bFilter = [status |-> BFILTER_ENABLED, bits |-> {}]
                  /\ tempFilter = NULL
             ELSE bFilter = main /\ tempFilter = temp

\* C35 witness: a main filter that held a key was discarded by swapFilter
\* together with the disabled temp filter, and every key may exist again.
C35_Witness ==
    /\ LastFilterCall.op = "swapFilter"
    /\ filterPre.bFilter # NULL
    /\ filterPre.bFilter.bits = BitsOf("a")
    /\ filterPre.tempFilter # NULL
    /\ filterPre.tempFilter.status = BFILTER_DISABLED
    /\ bFilter = NULL
    /\ maybeKeyExistsInFilter("b")

\* Every fetch of the list asks for the metadata only.
AllMetaOnly(list) == \A i \in 1..Len(list) : list[i].metaDataOnly

\* The entries of a pending-fetch map are meta-only exactly when all their
\* fetches are.
Coalesced(fetches) ==
    \A key \in DOMAIN fetches :
        fetches[key].isMetaOnly <=> AllMetaOnly(fetches[key].bgfetched_list)

\* C36: for each key of the pending-fetch map the coalesced entry is
\* meta-only if and only if every fetch queued for the key since the last
\* getBGFetchItems is; one full-value fetch, queued before or after the
\* meta-only ones, makes the entry a full-value fetch for good. The map the
\* fetcher took away is coalesced the same way.
C36_MetaOnlyIffAllMetaOnly ==
    /\ Coalesced(pendingBGFetches)
    /\ \A t \in BgFetchers :
          threads[t].pc # "idle" => Coalesced(threads[t].taken)
    /\ (lastCall.op = "queueBGFetchItem"
           /\ lastCall.key \in DOMAIN pre.pendingBGFetches
           /\ ~pre.pendingBGFetches[lastCall.key].isMetaOnly)
          => ~pendingBGFetches[lastCall.key].isMetaOnly

\* C36 witness: a meta-only fetch joined a full-value fetch parked for the
\* key, and the entry stayed a full-value fetch.
C36_Witness ==
    /\ lastCall.op = "queueBGFetchItem"
    /\ lastCall.metaDataOnly
    /\ lastCall.key \in DOMAIN pre.pendingBGFetches
    /\ ~pre.pendingBGFetches[lastCall.key].isMetaOnly
    /\ ~pendingBGFetches[lastCall.key].isMetaOnly
    /\ Len(pendingBGFetches[lastCall.key].bgfetched_list) = 2

\* VBucket::getHighPriorityChkSize
getHighPriorityChkSize == numHpChks

\* C37 (as claimed): after every completed addHighPriorityVBEntry,
\* notifyOnPersistence and notifyAllPendingConnsFailed,
\* getHighPriorityChkSize() is the number of entries of the waiter list, and
\* the shard's highPriorityCount is the number of entries its vBucket has
\* registered.
C37_CountsMatchWaiterList ==
    lastCall.op \in {"addHighPriorityVBEntry", "notifyOnPersistence",
                     "notifyAllPendingConnsFailed"} =>
        /\ getHighPriorityChkSize = Len(hpChks)
        /\ highPriorityCount = Len(hpChks)

\* Some waiter of the wait type is in the list.
Registered(isBySeqno) == OfType(hpChks, isBySeqno) # <<>>

\* After notifyOnPersistence every waiter of the call's wait type was seen by
\* the walk, and each one older than MAX_CHK_FLUSH_TIMEOUT seconds was erased
\* and its cookie notified with Success or TempFail.
OverdueResolved ==
    lastCall.op = "notifyOnPersistence" =>
        /\ [i \in 1..Len(walkLog) |-> walkLog[i].entry]
              = OfType(pre.hpChks, lastCall.flag)
        /\ \A i \in 1..Len(walkLog) :
              walkLog[i].spent > MAX_CHK_FLUSH_TIMEOUT =>
                 /\ walkLog[i].erased
                 /\ Count(notified, walkLog[i].entry.cookie) = 1
                 /\ \/ CountWith(notified, walkLog[i].entry.cookie,
                                 ENGINE_SUCCESS) = 1
                    \/ CountWith(notified, walkLog[i].entry.cookie,
                                 ENGINE_TMPFAIL) = 1

\* C38: every registered high-priority waiter is eventually resolved. A
\* waiter older than MAX_CHK_FLUSH_TIMEOUT seconds is removed and notified by
\* the next notifyOnPersistence of its wait type, whatever the order of the
\* entries and the timeout adjustments made during the walk; so, with
\* notifyOnPersistence called again and again for both wait types while time
\* advances, no waiter stays in the list forever: whenever waiters of a wait
\* type are registered, a moment comes at which all of them have left.
C38_WaitersEventuallyResolved ==
    /\ []OverdueResolved
    /\ \A isBySeqno \in BOOLEAN :
          Registered(isBySeqno) ~> ~Registered(isBySeqno)

\* C38 witness: a walk met a reached waiter first and widened the timeout,
\* then erased an unreached waiter older than MAX_CHK_FLUSH_TIMEOUT.
C38_Witness ==
    /\ lastCall.op = "notifyOnPersistence"
    /\ Len(walkLog) = 2
    /\ walkLog[1].entry.id <= lastCall.id
    /\ walkLog[2].entry.id > lastCall.id
    /\ walkLog[2].spent > MAX_CHK_FLUSH_TIMEOUT
    /\ walkLog[2].timeout > pre.chkFlushTimeout
    /\ walkLog[2].erased
    /\ hpChks = <<>>

\* C39 (as claimed): with several threads mutating the vBucket the new-seqno
\* callback is invoked in increasing bySeqno order (no callback carrying n
\* runs after one carrying more than n), and the seqno it carries is the one
\* stamped on the stored value and returned by VBucket::queueDirty.
C39_CallbacksInSeqnoOrder ==
    /\ \A r \in seqnoLog :
          r.notified = r.stamped /\ r.notified = r.returned
    /\ \A r1, r2 \in seqnoLog :
          r1.call < r2.call => r1.notified < r2.notified

\* C39 (amended): every VBucket::queueDirty call invokes the new-seqno
\* callback once, with the seqno it stamped on the stored value and returns;
\* the seqnos carried are distinct and increase in the order in which the
\* checkpoint manager queued the mutations, which need not be the order in
\* which the callbacks run.
C39_CallbackCarriesOwnSeqno ==
    /\ \A r \in seqnoLog :
          /\ r.notified = r.stamped /\ r.notified = r.returned
          /\ r.notified = ckpt.history[r.commit].bySeqno
    /\ \A r1, r2 \in seqnoLog :
          /\ r1.commit < r2.commit => r1.notified < r2.notified
          /\ r1 # r2 => r1.call # r2.call /\ r1.commit # r2.commit

\* C39 witness: of two threads mutating different keys the one queued first
\* ran its callback last.
C39_Witness ==
    \E r1, r2 \in seqnoLog :
        /\ r1.key # r2.key
        /\ r1.commit < r2.commit
        /\ r1.notified < r2.notified
        /\ r1.call > r2.call

\* How often the op was passed to notifyIOComplete, by any thread.
TimesFired(op) ==
    LET By(t) == Cardinality({i \in 1..Len(threads[t].fired) :
                                threads[t].fired[i].cookie = op})
    IN By("t1") + By("t2")

\* How often the op is in the pending-op list.
TimesPending(op) == Occurrences(pendingOps, op)

\* How often the op is in the hands of a thread between the pop and the
\* notification.
TimesPopped(op) ==
    Cardinality({t \in Threads :
                    threads[t].pc = "notifying" /\ threads[t].op = op})

\* C40: under every interleaving of concurrent fireAllOps calls on one
\* vBucket, the pending-op mutex being free during each notifyIOComplete,
\* every pending op is passed to notifyIOComplete exactly once: at any moment
\* an op is either in the list, or popped and about to be notified, or
\* notified once, and with no call under way and the list empty every op was
\* notified; the list is empty when a call that drained it returns, and
\* outside a draining call a non-empty list has its timer running, so that
\* the next call drains it.
C40_EachOpFiredOnce ==
    /\ \A op \in 1..MaxOps :
          /\ TimesFired(op) <= 1
          /\ op <= LastOp =>
                TimesPending(op) + TimesPopped(op) + TimesFired(op) = 1
    /\ \A t \in Threads :
          (threads[t].pc = "idle" /\ threads[t].drained)
             => threads[t].left = <<>>
    /\ (\A t \in Threads : threads[t].pc = "idle") =>
          /\ pendingOps # <<>> => pendingOpsStart > 0
          /\ pendingOps = <<>> => \A op \in 1..LastOp : TimesFired(op) = 1

\* C40 witness: a second thread called fireAllOps while the first was
\* notifying, found the timer cleared and returned with ops still parked;
\* the first went on to drain them.
C40_Witness ==
    /\ threads["t1"].pc = "idle" /\ threads["t1"].drained
    /\ Len(threads["t1"].fired) = MaxOps
    /\ threads["t2"].pc = "idle" /\ ~threads["t2"].drained
    /\ threads["t2"].left # <<>>
    /\ pendingOps = <<>>

====
